---- MODULE Spec2Model ----
(***************************************************************************)
(* Route-planning engine of the helpdesk repository (Roteirizador):        *)
(* stop clustering, capacity and time partitioning, provider-backed        *)
(* optimisation, schedule computation and the manual re-assignment         *)
(* endpoints, modelled from src/roteirizador_utils.py and                  *)
(* src/routes/roteirizador.py, and the route-adherence comparator of       *)
(* src/kml_utils.py.                                                       *)
(*                                                                         *)
(* Geometry.  Positions lie on one meridian, so a position is a latitude   *)
(* expressed as a length along that meridian and haversine(a, b) is        *)
(* exactly |a - b|.  The clusterer keeps running means of up to            *)
(* MaxPassageiros stop positions; lengths are therefore counted in units   *)
(* of 1/Scale metre (Scale = MaxPassageiros!), which keeps every mean an   *)
(* integer, and a radius given in metres is multiplied by Scale before it  *)
(* is compared.  Floating-point rounding is not modelled.                  *)
(***************************************************************************)
EXTENDS Integers, Sequences, FiniteSets, TLC

VARIABLES
    \* clusterizar_passageiros (src/roteirizador_utils.py:356)
    \* followed by dividir_rotas_por_capacidade on its result
    passageiros, raio_metros, tem_destino, destino_lat, trunk_points,
    paradas_raw, clusters, assigned, cl_i, cl_pc, capacidade, rotas,
    \* otimizar_rota_google (src/roteirizador_utils.py:593)
    dr_api_key, dr_paradas, dr_destino, dr_chunk_size, dr_resps, dr_result, dr_pc,
    \* calcular_horarios (src/roteirizador_utils.py:749)
    hr_legs, hr_horario_chegada, hr_dwell, hr_i, hr_current_time, hr_schedule,
    hr_pc, hr_tempo_veiculo,
    \* dividir_rotas_por_tempo (src/roteirizador_utils.py:545)
    tm_grupo_clusters, tm_resultado_otimizacao, tm_tempo_max_min, tm_destino,
    tm_stack, tm_resultados, tm_calls, tm_pc,
    \* the rows of one roteirização (src/routes/roteirizador.py):
    \* RoteiroPlanejado, PontoParada, Passageiro, PassageiroBase
    db_roteiros, db_paradas, db_passageiros, db_bases, db_capacidade_veiculo,
    db_destino_lat, db_total_passageiros, db_status, db_ops,
    \* calcular_horarios_volta (src/roteirizador_utils.py:890)
    vt_legs, vt_horario_saida, vt_dwell, vt_i, vt_current_time,
    vt_schedule, vt_pc,
    \* _otimizar_background (src/routes/roteirizador.py:613), on the rows db_*
    ob_pc, ob_tempo_maximo_viagem, ob_sub_rotas_capacidade, ob_g_idx,
    ob_sub_rotas_finais, ob_timeout_hit, ob_status, ob_flash, ob_excecao,
    \* simulation snapshots: the Roteirizacao row, its tables, its snapshots
    sm_rot, sm_roteiros, sm_paradas, sm_simulacoes, sm_seq, sm_op, sm_ops,
    \* comparar_kml: the planned file, both coordinate lists, the tolerance, the result
    km_planejado_existe, km_coords_planejado, km_coords_executado,
    km_tolerancia_metros, km_resultado, km_pc,
    \* fuel analysis: the parsed records, the returned dictionary, the step
    cb_registros, cb_resultado, cb_pc,
    \* progress of long operations: the stored record, the clock, the request
    \* threads, the worker threads, the last response
    pg_progresso_json, pg_agora, pg_pedidos, pg_workers, pg_resposta

clVars == <<passageiros, raio_metros, tem_destino, destino_lat, trunk_points,
            paradas_raw, clusters, assigned, cl_i, cl_pc, capacidade, rotas>>

drVars == <<dr_api_key, dr_paradas, dr_destino, dr_chunk_size, dr_resps,
            dr_result, dr_pc>>

hrVars == <<hr_legs, hr_horario_chegada, hr_dwell, hr_i, hr_current_time,
            hr_schedule, hr_pc, hr_tempo_veiculo>>

tmVars == <<tm_grupo_clusters, tm_resultado_otimizacao, tm_tempo_max_min,
            tm_destino, tm_stack, tm_resultados, tm_calls, tm_pc>>

dbVars == <<db_roteiros, db_paradas, db_passageiros, db_bases,
            db_capacidade_veiculo, db_destino_lat, db_total_passageiros,
            db_status, db_ops>>

vtVars == <<vt_legs, vt_horario_saida, vt_dwell, vt_i, vt_current_time,
             vt_schedule, vt_pc>>

obVars == <<ob_pc, ob_tempo_maximo_viagem, ob_sub_rotas_capacidade,
             ob_g_idx, ob_sub_rotas_finais, ob_timeout_hit, ob_status,
             ob_flash, ob_excecao>>

smVars == <<sm_rot, sm_roteiros, sm_paradas, sm_simulacoes, sm_seq, sm_op,
             sm_ops>>

kmVars == <<km_planejado_existe, km_coords_planejado, km_coords_executado,
             km_tolerancia_metros, km_resultado, km_pc>>

cbVars == <<cb_registros, cb_resultado, cb_pc>>

pgVars == <<pg_progresso_json, pg_agora, pg_pedidos, pg_workers,
             pg_resposta>>

vars == <<clVars, drVars, hrVars, tmVars, dbVars, vtVars, obVars, smVars,
        kmVars, cbVars, pgVars>>

\* What the actions of one part leave alone: the state of the other parts.
clOthers == <<drVars, hrVars, tmVars, dbVars, vtVars, obVars, smVars,
        kmVars, cbVars, pgVars>>
drOthers == <<clVars, hrVars, tmVars, dbVars, vtVars, obVars, smVars,
        kmVars, cbVars, pgVars>>
hrOthers == <<clVars, drVars, tmVars, dbVars, vtVars, obVars, smVars,
        kmVars, cbVars, pgVars>>
tmOthers == <<clVars, drVars, hrVars, dbVars, vtVars, obVars, smVars,
        kmVars, cbVars, pgVars>>
dbOthers == <<clVars, drVars, hrVars, tmVars, vtVars, obVars, smVars,
        kmVars, cbVars, pgVars>>
vtOthers == <<clVars, drVars, hrVars, tmVars, dbVars, obVars, smVars,
        kmVars, cbVars, pgVars>>
obOthers == <<clVars, drVars, hrVars, tmVars, dbVars, vtVars, smVars,
        kmVars, cbVars, pgVars>>
smOthers == <<clVars, drVars, hrVars, tmVars, dbVars, vtVars, obVars,
        kmVars, cbVars, pgVars>>
kmOthers == <<clVars, drVars, hrVars, tmVars, dbVars, vtVars, obVars,
        smVars, cbVars, pgVars>>
cbOthers == <<clVars, drVars, hrVars, tmVars, dbVars, vtVars, obVars,
        smVars, kmVars, pgVars>>
pgOthers == <<clVars, drVars, hrVars, tmVars, dbVars, vtVars, obVars,
        smVars, kmVars, cbVars>>

\* What the optimisation run leaves alone: it rewrites the rows and calls
\* dividir_rotas_por_tempo.
obRest == <<clVars, drVars, hrVars, vtVars, smVars, kmVars, cbVars, pgVars>>

\* Python's None
Null == [null |-> TRUE]

\* The state of a part that is not run by the specification at hand.
ClIdle ==
    /\ passageiros = <<>> /\ raio_metros = 0 /\ tem_destino = FALSE
    /\ destino_lat = 0 /\ trunk_points = <<>> /\ paradas_raw = <<>>
    /\ clusters = <<>> /\ assigned = {} /\ cl_i = 0 /\ cl_pc = "idle"
    /\ capacidade = 0 /\ rotas = <<>>

DrIdle ==
    /\ dr_api_key = FALSE /\ dr_paradas = <<>> /\ dr_destino = 0
    /\ dr_chunk_size = 0 /\ dr_resps = <<>> /\ dr_result = Null
    /\ dr_pc = "idle"

HrIdle ==
    /\ hr_legs = <<>> /\ hr_horario_chegada = 0 /\ hr_dwell = 0 /\ hr_i = 0
    /\ hr_current_time = 0 /\ hr_schedule = <<>> /\ hr_pc = "idle"
    /\ hr_tempo_veiculo = <<>>

TmIdle ==
    /\ tm_grupo_clusters = <<>> /\ tm_resultado_otimizacao = Null
    /\ tm_tempo_max_min = 0 /\ tm_destino = 0 /\ tm_stack = <<>>
    /\ tm_resultados = <<>> /\ tm_calls = 0 /\ tm_pc = "idle"

DbIdle ==
    /\ db_roteiros = <<>> /\ db_paradas = <<>> /\ db_passageiros = <<>>
    /\ db_bases = <<>> /\ db_capacidade_veiculo = 0 /\ db_destino_lat = 0
    /\ db_total_passageiros = 0 /\ db_status = "idle" /\ db_ops = 0

VtIdle ==
    /\ vt_legs = <<>> /\ vt_horario_saida = 0 /\ vt_dwell = 0 /\ vt_i = 0
    /\ vt_current_time = 0 /\ vt_schedule = <<>> /\ vt_pc = "idle"

ObIdle ==
    /\ ob_pc = "idle" /\ ob_tempo_maximo_viagem = 0
    /\ ob_sub_rotas_capacidade = <<>> /\ ob_g_idx = 0
    /\ ob_sub_rotas_finais = <<>> /\ ob_timeout_hit = FALSE
    /\ ob_status = "" /\ ob_flash = Null /\ ob_excecao = FALSE

SmIdle ==
    /\ sm_rot = Null /\ sm_roteiros = <<>> /\ sm_paradas = <<>>
    /\ sm_simulacoes = <<>> /\ sm_seq = Null /\ sm_op = Null /\ sm_ops = 0

KmIdle ==
    /\ km_planejado_existe = FALSE /\ km_coords_planejado = <<>>
    /\ km_coords_executado = <<>>
    /\ km_tolerancia_metros = 0 /\ km_resultado = Null /\ km_pc = "ocioso"

CbIdle ==
    /\ cb_registros = <<>> /\ cb_resultado = Null /\ cb_pc = "ocioso"

PgIdle ==
    /\ pg_progresso_json = Null /\ pg_agora = 0 /\ pg_pedidos = <<>> /\ pg_workers = <<>> /\ pg_resposta = Null

clOthersIdle == DrIdle /\ HrIdle /\ TmIdle /\ DbIdle /\ VtIdle /\ ObIdle /\
        SmIdle /\ KmIdle /\ CbIdle /\ PgIdle
drOthersIdle == ClIdle /\ HrIdle /\ TmIdle /\ DbIdle /\ VtIdle /\ ObIdle /\
        SmIdle /\ KmIdle /\ CbIdle /\ PgIdle
hrOthersIdle == ClIdle /\ DrIdle /\ TmIdle /\ DbIdle /\ VtIdle /\ ObIdle /\
        SmIdle /\ KmIdle /\ CbIdle /\ PgIdle
tmOthersIdle == ClIdle /\ DrIdle /\ HrIdle /\ DbIdle /\ VtIdle /\ ObIdle /\
        SmIdle /\ KmIdle /\ CbIdle /\ PgIdle
dbOthersIdle == ClIdle /\ DrIdle /\ HrIdle /\ TmIdle /\ VtIdle /\ ObIdle /\
        SmIdle /\ KmIdle /\ CbIdle /\ PgIdle
vtOthersIdle == ClIdle /\ DrIdle /\ HrIdle /\ TmIdle /\ DbIdle /\ ObIdle /\
        SmIdle /\ KmIdle /\ CbIdle /\ PgIdle
obOthersIdle == ClIdle /\ DrIdle /\ HrIdle /\ TmIdle /\ DbIdle /\ VtIdle /\
        SmIdle /\ KmIdle /\ CbIdle /\ PgIdle
smOthersIdle == ClIdle /\ DrIdle /\ HrIdle /\ TmIdle /\ DbIdle /\ VtIdle /\
        ObIdle /\ KmIdle /\ CbIdle /\ PgIdle
kmOthersIdle == ClIdle /\ DrIdle /\ HrIdle /\ TmIdle /\ DbIdle /\ VtIdle /\
        ObIdle /\ SmIdle /\ CbIdle /\ PgIdle
cbOthersIdle == ClIdle /\ DrIdle /\ HrIdle /\ TmIdle /\ DbIdle /\ VtIdle /\
        ObIdle /\ SmIdle /\ KmIdle /\ PgIdle
pgOthersIdle == ClIdle /\ DrIdle /\ HrIdle /\ TmIdle /\ DbIdle /\ VtIdle /\
        ObIdle /\ SmIdle /\ KmIdle /\ CbIdle

obRestIdle == ClIdle /\ DrIdle /\ HrIdle /\ VtIdle /\ SmIdle /\ KmIdle /\
        CbIdle /\ PgIdle

----------------------------------------------------------------------------
(* Bounds and program constants *)

MaxPassageiros == 3
MaxCapacidade == 2
MaxClusters == 3
MaxPax == 2
MaxParadasDir == 3
MaxChunkSize == 2
MERGE_DIST == 200

RECURSIVE Fact(_)
Fact(n) == IF n <= 1 THEN 1 ELSE n * Fact(n - 1)

Scale == Fact(MaxPassageiros)

\* Passenger and destination positions, metres along the meridian.
PosMetros == {0, 200, 300, 500}
DestMetros == {0, 1000}
RaioMetros == {100, 300}

----------------------------------------------------------------------------
(* Generic helpers *)

Abs(x) == IF x < 0 THEN 0 - x ELSE x
Min(a, b) == IF a <= b THEN a ELSE b
Max(a, b) == IF a >= b THEN a ELSE b

RECURSIVE SumSeq(_)
SumSeq(s) == IF s = <<>> THEN 0 ELSE Head(s) + SumSeq(Tail(s))

Range(s) == {s[i] : i \in DOMAIN s}

SeqsUpTo(S, n) == UNION {[1..k -> S] : k \in 0..n}

\* ceil(a / b) for a >= 0, b > 0
CeilDiv(a, b) == (a + b - 1) \div b

\* haversine of two points of the meridian
haversine(lat1, lat2) == Abs(lat2 - lat1)

\* Python's round(a / b) for b > 0: to the nearest integer, ties to even
RoundDiv(a, b) ==
    LET m == Abs(a)
        q == m \div b
        r == m % b
        up == IF 2 * r > b \/ (2 * r = b /\ q % 2 = 1) THEN q + 1 ELSE q
    IN  IF a < 0 THEN 0 - up ELSE up

----------------------------------------------------------------------------
(* dividir_rotas_por_capacidade: angular sweep and greedy accumulation.    *)
(* A cluster is a record with centroid_lat, centroid_lng, passageiro_ids.  *)

\* The place of atan2(dy, dx) in (-pi, pi]: 0 below the axis, 1 at angle 0
\* (which includes atan2(0, 0)), 2 above the axis, 3 at angle pi.
AngleClass(dy, dx) ==
    IF dy < 0 THEN 0
    ELSE IF dy > 0 THEN 2
    ELSE IF dx >= 0 THEN 1 ELSE 3

\* atan2(ay, ax) < atan2(by, bx)
AngleLess(ay, ax, by, bx) ==
    LET ca == AngleClass(ay, ax)
        cb == AngleClass(by, bx)
    IN  \/ ca < cb
        \/ ca = cb /\ ca \in {0, 2} /\ ax * by - ay * bx > 0

\* angle(a) < angle(b) about the mean of the centroids of cs; the
\* differences c - center are taken times Len(cs), which keeps the angle.
angleLess(a, b, cs) ==
    LET n == Len(cs)
        sum_lat == SumSeq([i \in 1..n |-> cs[i].centroid_lat])
        sum_lng == SumSeq([i \in 1..n |-> cs[i].centroid_lng])
    IN  AngleLess(n * a.centroid_lat - sum_lat, n * a.centroid_lng - sum_lng,
                  n * b.centroid_lat - sum_lat, n * b.centroid_lng - sum_lng)

\* sorted(cs, key=angle): stable, so x goes before the first y that is greater
RECURSIVE InsertByAngle(_, _, _)
InsertByAngle(x, s, cs) ==
    IF s = <<>> THEN <<x>>
    ELSE IF angleLess(x, Head(s), cs) THEN <<x>> \o s
    ELSE <<Head(s)>> \o InsertByAngle(x, Tail(s), cs)

RECURSIVE SortByAngle(_, _, _)
SortByAngle(rest, acc, cs) ==
    IF rest = <<>> THEN acc
    ELSE SortByAngle(Tail(rest), InsertByAngle(Head(rest), acc, cs), cs)

sorted_clusters(cs) == SortByAngle(cs, <<>>, cs)

Pax(c) == Len(c.passageiro_ids)

TotalPax(cs) == SumSeq([i \in 1..Len(cs) |-> Pax(cs[i])])

\* Mutant of FechaRota: the running count is tested before the stop is added.
FechaRotaSemPax(current_count, pax, cap, current_route) ==
    current_count > cap /\ current_route # <<>>

\* The test that closes current_route before stop c is added (line 532).
FechaRota(current_count, pax, cap, current_route) ==
    current_count + pax > cap /\ current_route # <<>>

\* The loop over sorted_clusters and the final flush of current_route.
RECURSIVE DistribuirRotas(_, _, _, _, _)
DistribuirRotas(rest, cap, acc, current_route, current_count) ==
    IF rest = <<>>
    THEN IF current_route # <<>> THEN Append(acc, current_route) ELSE acc
    ELSE LET c == Head(rest)
             pax == Pax(c)
         IN  IF FechaRota(current_count, pax, cap, current_route)
             THEN DistribuirRotas(Tail(rest), cap, Append(acc, current_route),
                                  <<c>>, pax)
             ELSE DistribuirRotas(Tail(rest), cap, acc,
                                  Append(current_route, c), current_count + pax)

dividir_rotas_por_capacidade(cs, cap) ==
    IF cs = <<>> THEN <<>>
    ELSE IF TotalPax(cs) <= cap THEN <<cs>>
    ELSE DistribuirRotas(sorted_clusters(cs), cap, <<>>, <<>>, 0)

----------------------------------------------------------------------------
(* clusterizar_passageiros                                                 *)

\* _projeto_ponto_segmento: <<projection, distance>> of p on segment a-b.
\* t = clamp(((p - a)(b - a)) / (b - a)^2, 0, 1) puts a + t (b - a) at p
\* clamped to the segment.
projeto_ponto_segmento(p, a, b) ==
    IF a = b THEN <<a, Abs(p - a)>>
    ELSE LET lo == Min(a, b)
             hi == Max(a, b)
             proj == IF p < lo THEN lo ELSE IF p > hi THEN hi ELSE p
         IN  <<proj, Abs(p - proj)>>

\* _projeto_ponto_polyline: the first segment of least distance wins
\* (dist < best_dist); best_dist starts at infinity, here -1.
RECURSIVE ProjLoop(_, _, _, _, _)
ProjLoop(lat, pts, i, best_proj, best_dist) ==
    IF i > Len(pts) - 1 THEN <<best_proj, best_dist>>
    ELSE LET pd == projeto_ponto_segmento(lat, pts[i], pts[i + 1])
         IN  IF best_dist < 0 \/ pd[2] < best_dist
             THEN ProjLoop(lat, pts, i + 1, pd[1], pd[2])
             ELSE ProjLoop(lat, pts, i + 1, best_proj, best_dist)

projeto_ponto_polyline(lat, pts) == ProjLoop(lat, pts, 1, lat, 0 - 1)

\* round(x, 1) of a length x given in 1/Scale metre: tenths of a metre
Round1(x) == RoundDiv(10 * x, Scale)

\* Step 2 with a trunk (lines 390-413); raio in 1/Scale metre.
ParadaTronco(p, trunk, raio) ==
    LET pd == projeto_ponto_polyline(p.lat, trunk)
        proj_lat == pd[1]
        dist == pd[2]
    IN  IF dist <= raio
        THEN [stop_lat |-> proj_lat, pid |-> p.id, walk_dist |-> Round1(dist)]
        ELSE \* frac = raio / dist (dist > raio >= 0, so dist > 0)
             [stop_lat |-> p.lat + ((proj_lat - p.lat) * raio) \div dist,
              pid |-> p.id, walk_dist |-> Round1(raio)]

\* Step 2 without a trunk (lines 415-430): frac = min(raio / dist, 0.5).
ParadaFallback(p, dest, raio) ==
    LET dist_to_dest == haversine(p.lat, dest)
        stop_lat == IF dist_to_dest > 0
                    THEN IF 2 * raio <= dist_to_dest
                         THEN p.lat + ((dest - p.lat) * raio) \div dist_to_dest
                         ELSE p.lat + (dest - p.lat) \div 2
                    ELSE p.lat
    IN  [stop_lat |-> stop_lat, pid |-> p.id,
         walk_dist |-> Round1(haversine(p.lat, stop_lat))]

\* trunk = <<>> stands for "no trunk" (None, or fewer than 2 points)
calcular_paradas_raw(ps, trunk, dest, raio) ==
    [i \in 1..Len(ps) |->
        IF trunk # <<>> THEN ParadaTronco(ps[i], trunk, raio)
        ELSE ParadaFallback(ps[i], dest, raio)]

\* next(p for p in passageiros if p['id'] == pid)
PassageiroPorId(ps, pid) ==
    ps[CHOOSE i \in 1..Len(ps) :
          /\ ps[i].id = pid
          /\ \A j \in 1..(i - 1) : ps[j].id # pid]

\* The centroid of the cluster after pr joins it (lines 453-455, 461-463).
NovoCentroide(cluster, pr) ==
    LET n == Len(cluster.passageiro_ids) + 1
    IN  (cluster.centroid_lat * (n - 1) + pr.stop_lat) \div n

\* Mutant of all_ok: only the joining passenger is tested.
all_ok_so_novo(cluster, pr, ps, raio) ==
    haversine(PassageiroPorId(ps, pr.pid).lat, NovoCentroide(cluster, pr)) <= raio

\* all_ok (lines 449-465): every member and the joining passenger stay
\* within raio of the new centroid.
all_ok(cluster, pr, ps, raio) ==
    LET new_lat == NovoCentroide(cluster, pr)
    IN  /\ \A k \in 1..Len(cluster.passageiro_ids) :
              haversine(PassageiroPorId(ps, cluster.passageiro_ids[k]).lat,
                        new_lat) <= raio
        /\ haversine(PassageiroPorId(ps, pr.pid).lat, new_lat) <= raio

\* Mutant of ClusterParaFundir: the last cluster that qualifies is taken.
ClusterParaFundirUltimo(cs, pr, ps, raio) ==
    LET ok == {k \in 1..Len(cs) :
                 /\ haversine(pr.stop_lat, cs[k].centroid_lat) <= MERGE_DIST * Scale
                 /\ all_ok(cs[k], pr, ps, raio)}
    IN  IF ok = {} THEN 0 ELSE CHOOSE k \in ok : \A j \in ok : k >= j

\* The cluster pr joins: the first, in creation order, that is within
\* MERGE_DIST of pr's stop and passes all_ok; 0 when there is none.
ClusterParaFundir(cs, pr, ps, raio) ==
    LET ok == {k \in 1..Len(cs) :
                 /\ haversine(pr.stop_lat, cs[k].centroid_lat) <= MERGE_DIST * Scale
                 /\ all_ok(cs[k], pr, ps, raio)}
    IN  IF ok = {} THEN 0 ELSE CHOOSE k \in ok : \A j \in ok : k <= j

\* Mutant of FundirParada: a merge moves the centroid but does not record
\* the joining passenger.
FundirParadaSemMembro(cs, pr, ps, raio) ==
    LET k == ClusterParaFundir(cs, pr, ps, raio)
    IN  IF k > 0
        THEN [cs EXCEPT ![k].centroid_lat = NovoCentroide(cs[k], pr)]
        ELSE Append(cs, [centroid_lat |-> pr.stop_lat,
                         centroid_lng |-> 0,
                         passageiro_ids |-> <<pr.pid>>,
                         distancias |-> (pr.pid :> pr.walk_dist)])

\* One pass of the loop body of Step 3 for candidate pr (lines 443-481).
FundirParada(cs, pr, ps, raio) ==
    LET k == ClusterParaFundir(cs, pr, ps, raio)
    IN  IF k > 0
        THEN [cs EXCEPT ![k] =
                [centroid_lat |-> NovoCentroide(cs[k], pr),
                 centroid_lng |-> cs[k].centroid_lng,
                 passageiro_ids |-> Append(cs[k].passageiro_ids, pr.pid),
                 distancias |-> (pr.pid :> pr.walk_dist) @@ cs[k].distancias]]
        ELSE Append(cs, [centroid_lat |-> pr.stop_lat,
                         centroid_lng |-> 0,
                         passageiro_ids |-> <<pr.pid>>,
                         distancias |-> (pr.pid :> pr.walk_dist)])

\* Step 4 (lines 485-490): final walking distances, rounded to 0.1 m.
RecalcularDistancias(cs, ps) ==
    [k \in 1..Len(cs) |->
        [cs[k] EXCEPT !.distancias =
            [pid \in Range(cs[k].passageiro_ids) |->
                Round1(haversine(cs[k].centroid_lat, PassageiroPorId(ps, pid).lat))]]]

\* Without a destination every passenger is a stop of its own (lines 371-375).
ClustersSemDestino(ps) ==
    [i \in 1..Len(ps) |->
        [centroid_lat |-> ps[i].lat, centroid_lng |-> 0,
         passageiro_ids |-> <<ps[i].id>>, distancias |-> (ps[i].id :> 0)]]

----------------------------------------------------------------------------
(* Specification SpecCluster: clusterizar_passageiros run on every input   *)
(* of the bounded sets, one candidate of the merge pass per step, and its  *)
(* result then partitioned by dividir_rotas_por_capacidade.                *)

MkPassageiros(f) ==
    [i \in 1..Len(f) |-> [id |-> i, lat |-> Scale * f[i]]]

\* index of max(passageiros, key=distance to the destination): the first
farthest_idx(ps, dest) ==
    CHOOSE i \in 1..Len(ps) :
        /\ \A j \in 1..Len(ps) : haversine(ps[j].lat, dest) <= haversine(ps[i].lat, dest)
        /\ \A j \in 1..(i - 1) : haversine(ps[j].lat, dest) < haversine(ps[i].lat, dest)

\* What _obter_rota_tronco may return for a request from the farthest
\* passenger: nothing (failure), or a decoded polyline ending at the
\* destination, which need not start exactly at the passenger.
TrunkSet(ps, dest) ==
    LET far == ps[farthest_idx(ps, dest)].lat
    IN  {<<>>, <<far>>, <<far, dest>>}
        \cup {<<Scale * m, dest>> : m \in PosMetros}
        \cup {<<far, Scale * m, dest>> : m \in PosMetros}

ClInit ==
    /\ \E k \in 0..MaxPassageiros :
          \E f \in [1..k -> PosMetros] : passageiros = MkPassageiros(f)
    /\ raio_metros \in RaioMetros
    /\ tem_destino \in BOOLEAN
    /\ destino_lat \in IF tem_destino THEN {Scale * m : m \in DestMetros} ELSE {0}
    /\ trunk_points = <<>> /\ paradas_raw = <<>>
    /\ clusters = <<>> /\ assigned = {} /\ cl_i = 0 /\ cl_pc = "inicio"
    /\ capacidade = 0 /\ rotas = <<>>
    /\ clOthersIdle

\* lines 368-369
ClVazio ==
    /\ cl_pc = "inicio" /\ passageiros = <<>>
    /\ clusters' = <<>> /\ cl_pc' = "fim"
    /\ UNCHANGED <<passageiros, raio_metros, tem_destino, destino_lat,
                   trunk_points, paradas_raw, assigned, cl_i, capacidade, rotas>>
    /\ UNCHANGED clOthers

\* lines 371-375
ClSemDestino ==
    /\ cl_pc = "inicio" /\ passageiros # <<>> /\ ~tem_destino
    /\ clusters' = ClustersSemDestino(passageiros) /\ cl_pc' = "fim"
    /\ UNCHANGED <<passageiros, raio_metros, tem_destino, destino_lat,
                   trunk_points, paradas_raw, assigned, cl_i, capacidade, rotas>>
    /\ UNCHANGED clOthers

\* Steps 1 and 2 (lines 377-430)
ClPosicionar ==
    /\ cl_pc = "inicio" /\ passageiros # <<>> /\ tem_destino
    /\ \E t \in TrunkSet(passageiros, destino_lat) :
          /\ trunk_points' = IF Len(t) < 2 THEN <<>> ELSE t
          /\ paradas_raw' = calcular_paradas_raw(passageiros, trunk_points',
                                                 destino_lat, raio_metros * Scale)
    /\ clusters' = <<>> /\ assigned' = {} /\ cl_i' = 1 /\ cl_pc' = "fundir"
    /\ UNCHANGED <<passageiros, raio_metros, tem_destino, destino_lat,
                   capacidade, rotas>>
    /\ UNCHANGED clOthers

\* Step 3, one candidate (lines 438-482)
ClFundir ==
    /\ cl_pc = "fundir" /\ cl_i <= Len(paradas_raw)
    /\ LET pr == paradas_raw[cl_i]
       IN  IF pr.pid \in assigned
           THEN UNCHANGED <<clusters, assigned>>
           ELSE /\ clusters' = FundirParada(clusters, pr, passageiros,
                                            raio_metros * Scale)
                /\ assigned' = assigned \cup {pr.pid}
    /\ cl_i' = cl_i + 1
    /\ UNCHANGED <<passageiros, raio_metros, tem_destino, destino_lat,
                   trunk_points, paradas_raw, cl_pc, capacidade, rotas>>
    /\ UNCHANGED clOthers

\* Step 4 and the return (lines 485-492)
ClRecalcular ==
    /\ cl_pc = "fundir" /\ cl_i > Len(paradas_raw)
    /\ clusters' = RecalcularDistancias(clusters, passageiros)
    /\ cl_pc' = "fim"
    /\ UNCHANGED <<passageiros, raio_metros, tem_destino, destino_lat,
                   trunk_points, paradas_raw, assigned, cl_i, capacidade, rotas>>
    /\ UNCHANGED clOthers

\* The returned stops partitioned by a vehicle capacity
ClDividir ==
    /\ cl_pc = "fim"
    /\ \E cap \in 1..MaxCapacidade :
          /\ capacidade' = cap
          /\ rotas' = dividir_rotas_por_capacidade(clusters, cap)
    /\ cl_pc' = "dividido"
    /\ UNCHANGED <<passageiros, raio_metros, tem_destino, destino_lat,
                   trunk_points, paradas_raw, clusters, assigned, cl_i>>
    /\ UNCHANGED clOthers

ClNext ==
    \/ ClVazio \/ ClSemDestino \/ ClPosicionar \/ ClFundir \/ ClRecalcular
    \/ ClDividir

SpecCluster == ClInit /\ [][ClNext]_vars

----------------------------------------------------------------------------
(* Claims about clusterizar_passageiros                                    *)

C3_GruposDentroDaCapacidade ==
    cl_pc = "dividido" /\ passageiros # <<>> =>
        /\ Len(rotas) >= CeilDiv(TotalPax(clusters), capacidade)
        /\ \A g \in 1..Len(rotas) : TotalPax(rotas[g]) <= capacidade

\* the stop position of passenger pid: that of its entry of paradas_raw
StopDe(pid) ==
    paradas_raw[CHOOSE i \in 1..Len(paradas_raw) :
                    /\ paradas_raw[i].pid = pid
                    /\ \A j \in 1..(i - 1) : paradas_raw[j].pid # pid].stop_lat

\* c is the mean of the stop positions of pids, up to the truncation of
\* one division per merge (less than n (n - 1) / 2 units of 1/Scale metre)
EhMedia(c, pids) ==
    LET n == Len(pids)
        soma == SumSeq([k \in 1..n |-> StopDe(pids[k])])
    IN  2 * Abs(n * c - soma) <= n * (n - 1)

\* cluster k is within 200 m of the stop of pr, and its members and the
\* passenger of pr are within the radius of the centroid it would have
Qualifica(k, pr) ==
    LET n == Len(clusters[k].passageiro_ids) + 1
        novo == (clusters[k].centroid_lat * (n - 1) + pr.stop_lat) \div n
    IN  /\ Abs(pr.stop_lat - clusters[k].centroid_lat) <= 200 * Scale
        /\ \A pid \in Range(clusters[k].passageiro_ids) \cup {pr.pid} :
                Abs(PassageiroPorId(passageiros, pid).lat - novo)
                    <= raio_metros * Scale

\* C17: in the merge pass the candidates are taken in input order; a
\* candidate joins the first cluster, in creation order, that is within
\* 200 m of its stop and whose members, with the candidate, stay within
\* raio_metros of the simulated new centroid, and that cluster's centroid
\* becomes the mean of its members' stop positions; a new cluster, at the
\* candidate's stop, is started only when no cluster qualifies.
C17_FusaoNaOrdem ==
    [][(/\ cl_pc = "fundir" /\ cl_i' = cl_i + 1
        /\ paradas_raw[cl_i].pid \notin assigned)
       => LET pr == paradas_raw[cl_i]
              Q == {k \in 1..Len(clusters) : Qualifica(k, pr)}
          IN  IF Q # {}
              THEN LET k0 == CHOOSE k \in Q : \A j \in Q : k <= j
                   IN  /\ Len(clusters') = Len(clusters)
                       /\ clusters'[k0].passageiro_ids
                            = Append(clusters[k0].passageiro_ids, pr.pid)
                       /\ EhMedia(clusters'[k0].centroid_lat,
                                  clusters'[k0].passageiro_ids)
                       /\ \A j \in 1..Len(clusters) :
                            j # k0 => clusters'[j] = clusters[j]
              ELSE /\ Len(clusters') = Len(clusters) + 1
                   /\ SubSeq(clusters', 1, Len(clusters)) = clusters
                   /\ clusters'[Len(clusters')].passageiro_ids = <<pr.pid>>
                   /\ clusters'[Len(clusters')].centroid_lat = pr.stop_lat]_vars

\* The last candidate was within 200 m of the first cluster, which was
\* refused because of the radius, and joined a later cluster.
C17_Witness ==
    /\ cl_pc = "fundir" /\ cl_i > 2 /\ Len(clusters) >= 2
    /\ LET pr == paradas_raw[cl_i - 1]
       IN  /\ Abs(pr.stop_lat - clusters[1].centroid_lat) <= 200 * Scale
           /\ pr.pid \notin Range(clusters[1].passageiro_ids)
           /\ \E k \in 2..Len(clusters) :
                /\ Len(clusters[k].passageiro_ids) >= 2
                /\ clusters[k].passageiro_ids[Len(clusters[k].passageiro_ids)]
                        = pr.pid

\* how many times the id occurs among the members of the returned clusters
VezesNosClusters(pid) ==
    Cardinality({<<k, j>> \in (1..Len(clusters)) \X (1..MaxPassageiros + 1) :
                    /\ j <= Len(clusters[k].passageiro_ids)
                    /\ clusters[k].passageiro_ids[j] = pid})

\* C30: clusterizar_passageiros assigns every input passenger (ids are
\* distinct) to exactly one returned cluster: the passageiro_ids lists are
\* pairwise disjoint, their union is the set of input ids, no cluster is
\* empty, and the keys of each cluster's distancias are exactly its
\* members.  No passenger gives an empty result, one passenger gives one
\* cluster.
C30_CadaPassageiroUmCluster ==
    cl_pc = "fim" =>
        /\ \A i \in 1..Len(passageiros) : VezesNosClusters(passageiros[i].id) = 1
        /\ \A k \in 1..Len(clusters) :
              /\ clusters[k].passageiro_ids # <<>>
              /\ Range(clusters[k].passageiro_ids)
                    \subseteq {passageiros[i].id : i \in 1..Len(passageiros)}
              /\ DOMAIN clusters[k].distancias = Range(clusters[k].passageiro_ids)
        /\ passageiros = <<>> => clusters = <<>>
        /\ Len(passageiros) = 1 => Len(clusters) = 1

\* Three passengers came back as two clusters, one of them merged, with a
\* trunk route.
C30_Witness ==
    /\ cl_pc = "fim" /\ tem_destino /\ trunk_points # <<>>
    /\ Len(passageiros) = 3 /\ Len(clusters) = 2
    /\ \E k \in 1..2 : Len(clusters[k].passageiro_ids) = 2


----------------------------------------------------------------------------
(* Specification SpecCap: dividir_rotas_por_capacidade on stop lists with  *)
(* centroids in the plane (units of the grid), as _otimizar_background     *)
(* builds them (clusters_data, src/routes/roteirizador.py:634-641).        *)

GridPoints == {<<0, 0>>, <<1, 0>>, <<0, 1>>, <<0 - 1, 0 - 1>>}

MkClusters(f) ==
    [i \in 1..Len(f) |-> [id |-> i,
                          centroid_lat |-> f[i][1][1],
                          centroid_lng |-> f[i][1][2],
                          passageiro_ids |-> [j \in 1..f[i][2] |-> 10 * i + j]]]

CapInit ==
    /\ passageiros = <<>> /\ raio_metros = 0 /\ tem_destino = FALSE
    /\ destino_lat = 0 /\ trunk_points = <<>> /\ paradas_raw = <<>>
    /\ \E k \in 0..MaxClusters :
          \E f \in [1..k -> GridPoints \X (0..MaxPax)] : clusters = MkClusters(f)
    /\ assigned = {} /\ cl_i = 0 /\ cl_pc = "fim"
    /\ capacidade = 0 /\ rotas = <<>>
    /\ clOthersIdle

CapNext == ClDividir

SpecCap == CapInit /\ [][CapNext]_vars

RECURSIVE Flatten(_)
Flatten(ss) == IF ss = <<>> THEN <<>> ELSE Head(ss) \o Flatten(Tail(ss))

Count(x, s) == Cardinality({i \in 1..Len(s) : s[i] = x})

\* C2: the groups partition the input stops (every stop in exactly one
\* group, none added), so the passenger total is kept; and a group exceeds
\* the capacity only when it is a single stop that alone exceeds it.
C2_ParticaoPorCapacidade ==
    cl_pc = "dividido" =>
        LET flat == Flatten(rotas)
        IN  /\ Len(flat) = Len(clusters)
            /\ \A i \in 1..Len(clusters) : Count(clusters[i], flat) = 1
            /\ \A g \in 1..Len(rotas) : rotas[g] # <<>>
            /\ SumSeq([g \in 1..Len(rotas) |-> TotalPax(rotas[g])]) = TotalPax(clusters)
            /\ \A g \in 1..Len(rotas) :
                  TotalPax(rotas[g]) > capacidade =>
                      Len(rotas[g]) = 1 /\ Pax(rotas[g][1]) > capacidade

\* The sweep closed a group and a lone over-capacity stop got its own group.
C2_Witness ==
    /\ cl_pc = "dividido" /\ Len(rotas) >= 2
    /\ \E g \in 1..Len(rotas) : TotalPax(rotas[g]) > capacidade
    /\ \E g \in 1..Len(rotas) : Len(rotas[g]) >= 2

----------------------------------------------------------------------------
(* otimizar_rota_google, _directions_request, _directions_chunked.         *)
(* A stop is a record with id and lat.  A provider response is a record    *)
(*   status : "OK", "FAIL" (any other status) or "EXC" (the request or     *)
(*            the decoding of the answer raises),                          *)
(*   has_wp, wp : the route's waypoint_order (0-based positions in the     *)
(*            list of waypoints) when the answer carries one,              *)
(*   legs   : the legs, each with distance_m and duration_s,               *)
(*   polyline : the overview polyline (a token).                           *)
(* Indices into paradas are 0-based, as in the source.                     *)

\* other_indices[j], 0-based (line 681)
other_indices(far, j) == IF j < far THEN j ELSE j + 1

\* Mutant of full_order: the provider's order is used without remapping.
full_order_sem_remap(far, raw, n) ==
    IF n > 1 THEN <<far>> \o raw ELSE <<0>>

\* full_order (lines 676-684)
full_order(far, raw, n) ==
    IF n > 1
    THEN <<far>> \o [k \in 1..Len(raw) |-> other_indices(far, raw[k])]
    ELSE <<0>>

\* _directions_request (lines 612-695)
directions_request(ps, dest, resp) ==
    LET n == Len(ps)
        far == farthest_idx(ps, dest) - 1
        raw_wp_order == IF resp.has_wp THEN resp.wp ELSE [k \in 1..(n - 1) |-> k - 1]
        total_dist == SumSeq([k \in 1..Len(resp.legs) |-> resp.legs[k].distance_m])
        total_dur == SumSeq([k \in 1..Len(resp.legs) |-> resp.legs[k].duration_s])
    IN  IF resp.status # "OK" THEN Null
        ELSE IF n > 1 /\ \E k \in 1..Len(raw_wp_order) : raw_wp_order[k] \notin 0..(n - 2)
        THEN Null   \* IndexError, caught by the except clause
        ELSE [waypoint_order |-> full_order(far, raw_wp_order, n),
              legs |-> resp.legs,
              total_distance_km |-> RoundDiv(total_dist, 10),   \* in 0.01 km
              total_duration_min |-> RoundDiv(total_dur, 60),
              polyline |-> resp.polyline]

\* sorted(paradas, key=distance to the destination, reverse=True): stable
RECURSIVE InsertFarFirst(_, _, _)
InsertFarFirst(x, s, dest) ==
    IF s = <<>> THEN <<x>>
    ELSE IF haversine(x.lat, dest) > haversine(Head(s).lat, dest) THEN <<x>> \o s
    ELSE <<Head(s)>> \o InsertFarFirst(x, Tail(s), dest)

RECURSIVE SortFarFirst(_, _, _)
SortFarFirst(rest, acc, dest) ==
    IF rest = <<>> THEN acc
    ELSE SortFarFirst(Tail(rest), InsertFarFirst(Head(rest), acc, dest), dest)

paradas_sorted(ps, dest) == SortFarFirst(ps, <<>>, dest)

\* chunks (line 711)
chunks(ps, dest, chunk_size) ==
    LET srt == paradas_sorted(ps, dest)
        n == Len(srt)
    IN  [c \in 1..CeilDiv(n, chunk_size) |->
            SubSeq(srt, (c - 1) * chunk_size + 1, Min(c * chunk_size, n))]

\* The destination of chunk i's request (lines 714-720)
ChunkDestino(chs, i, dest) ==
    IF i < Len(chs) THEN chs[i + 1][1].lat ELSE dest

\* The body of "if result:" (lines 722-728); a failed chunk adds nothing.
ChunkAcumula(acc, chunk, result) ==
    IF result # Null
    THEN [full_order |-> acc.full_order \o
                         (IF result.waypoint_order # <<>>
                          THEN [k \in 1..Len(result.waypoint_order) |->
                                   chunk[result.waypoint_order[k] + 1]]
                          ELSE chunk),
          all_legs |-> acc.all_legs \o result.legs,
          total_dist |-> acc.total_dist + result.total_distance_km,
          total_dur |-> acc.total_dur + result.total_duration_min,
          polylines |-> Append(acc.polylines, result.polyline)]
    ELSE acc

RECURSIVE ChunkLoop(_, _, _, _, _)
ChunkLoop(chs, i, dest, resps, acc) ==
    IF i > Len(chs) THEN acc
    ELSE ChunkLoop(chs, i + 1, dest, resps,
                   ChunkAcumula(acc, chs[i],
                                directions_request(chs[i], ChunkDestino(chs, i, dest),
                                                   resps[i])))

\* next((i for i, pp in enumerate(paradas) if pp['id'] == p['id']), 0)
IndexPorId(ps, id) ==
    LET hit == {i \in 1..Len(ps) : ps[i].id = id}
    IN  IF hit = {} THEN 0 ELSE (CHOOSE i \in hit : \A j \in hit : i <= j) - 1

\* _directions_chunked (lines 698-742); resps[i] answers chunk i's request
directions_chunked(ps, dest, chunk_size, resps) ==
    LET chs == chunks(ps, dest, chunk_size)
        acc == ChunkLoop(chs, 1, dest, resps,
                         [full_order |-> <<>>, all_legs |-> <<>>, total_dist |-> 0,
                          total_dur |-> 0, polylines |-> <<>>])
    IN  [waypoint_order |-> [k \in 1..Len(acc.full_order) |->
                                IndexPorId(ps, acc.full_order[k].id)],
         legs |-> acc.all_legs,
         total_distance_km |-> acc.total_dist,
         total_duration_min |-> acc.total_dur,
         polyline |-> IF acc.polylines # <<>> THEN acc.polylines[1] ELSE ""]

MAX_WAYPOINTS == 23

\* The number of provider requests otimizar_rota_google makes for n stops
NumRequests(n, api_key) ==
    IF ~api_key \/ n = 0 THEN 0
    ELSE IF n <= MAX_WAYPOINTS THEN 1 ELSE CeilDiv(n, MAX_WAYPOINTS)

\* otimizar_rota_google (lines 593-609)
otimizar_rota_google(ps, dest, resps, api_key) ==
    IF ~api_key \/ ps = <<>> THEN Null
    ELSE IF Len(ps) <= MAX_WAYPOINTS THEN directions_request(ps, dest, resps[1])
    ELSE directions_chunked(ps, dest, MAX_WAYPOINTS, resps)

----------------------------------------------------------------------------
(* Specification SpecDir: otimizar_rota_google on short stop lists with    *)
(* every provider answer, on lists longer than MAX_WAYPOINTS with a few    *)
(* answers per chunk, and _directions_chunked with small chunk sizes.      *)

DirLat == {0, 100, 300}
DirDest == {0, 200}
BigN == {24, 30}
LegSet == {[distance_m |-> 1004, duration_s |-> 90],
           [distance_m |-> 2500, duration_s |-> 630]}

\* Stop lists that chunks of two split in three, the middle chunk with two
\* stops: on one side of the destination, and on both sides of it
DirTresChunks == {<<0, 0, 100, 300, 100>>, <<300, 0, 100, 0, 300>>}

\* Latitudes of a long stop list: rising, falling, or mixed with ties
LatPattern(pat, i) ==
    CASE pat = 1 -> 100 * i
      [] pat = 2 -> 100 * (40 - i)
      [] OTHER -> 100 * ((7 * i) % 5)

MkParadas(f) == [i \in 1..Len(f) |-> [id |-> 100 + i, lat |-> f[i]]]

Perms(S) ==
    {f \in [1..Cardinality(S) -> S] : \A i, j \in DOMAIN f : f[i] = f[j] => i = j}

RespFail(st) ==
    [status |-> st, has_wp |-> FALSE, wp |-> <<>>, legs |-> <<>>, polyline |-> ""]

RespOk(has, wp, leg, m) ==
    [status |-> "OK", has_wp |-> has, wp |-> wp, legs |-> [k \in 1..m |-> leg],
     polyline |-> "pl"]

\* Every answer to a request of m stops: a failure, or m legs with an
\* order that is absent, a permutation, or malformed (repeats, or a
\* position past the waypoints).
RespSet(m) ==
    {RespFail("FAIL"), RespFail("EXC")}
    \cup {RespOk(FALSE, <<>>, leg, m) : leg \in LegSet}
    \cup {RespOk(TRUE, wp, leg, m) : wp \in [1..(m - 1) -> 0..(m - 1)], leg \in LegSet}

\* The well-formed answers and one failure
RespMini(m) ==
    {RespFail("FAIL")}
    \cup {RespOk(FALSE, <<>>, leg, m) : leg \in LegSet}
    \cup {RespOk(TRUE, wp, CHOOSE leg \in LegSet : TRUE, m) : wp \in Perms(0..(m - 2))}

\* For a long chunk: a failure, the given order, or the reversed order
RespBig(m) ==
    {RespFail("FAIL")}
    \cup {RespOk(FALSE, <<>>, leg, m) : leg \in LegSet}
    \cup {RespOk(TRUE, [k \in 1..(m - 1) |-> m - 1 - k], CHOOSE leg \in LegSet : TRUE, m)}

ChunkLen(n, chunk_size, c) == Min(c * chunk_size, n) - (c - 1) * chunk_size

DrInit ==
    /\ dr_api_key \in BOOLEAN
    /\ \/ \E k \in 0..MaxParadasDir :
             \E f \in [1..k -> DirLat] : dr_paradas = MkParadas(f)
       \/ \E n \in BigN, pat \in 1..3 :
             dr_paradas = MkParadas([i \in 1..n |-> LatPattern(pat, i)])
       \/ \E f \in DirTresChunks : dr_paradas = MkParadas(f)
    /\ dr_destino \in DirDest
    /\ dr_chunk_size = 0 /\ dr_resps = <<>> /\ dr_result = Null
    /\ dr_pc = "inicio"
    /\ drOthersIdle

\* otimizar_rota_google, with the answers of the requests it makes
DrOtimizar ==
    /\ dr_pc = "inicio"
    /\ LET n == Len(dr_paradas)
           nreq == NumRequests(n, dr_api_key)
       IN  /\ \E resps \in [1..nreq ->
                    IF n <= MAX_WAYPOINTS THEN RespSet(n) ELSE UNION {RespBig(m) : m \in 1..MAX_WAYPOINTS}] :
                 /\ n > MAX_WAYPOINTS =>
                       \A c \in 1..nreq : resps[c] \in RespBig(ChunkLen(n, MAX_WAYPOINTS, c))
                 /\ dr_resps' = resps
                 /\ dr_result' = otimizar_rota_google(dr_paradas, dr_destino, resps,
                                                      dr_api_key)
           /\ dr_chunk_size' = IF n > MAX_WAYPOINTS THEN MAX_WAYPOINTS ELSE 0
    /\ dr_pc' = "otimizado"
    /\ UNCHANGED <<dr_api_key, dr_paradas, dr_destino>>
    /\ UNCHANGED drOthers

\* _directions_chunked called with a small chunk_size
DrChunked ==
    /\ dr_pc = "inicio" /\ dr_api_key
    /\ \E cs \in 1..MaxChunkSize :
          LET n == Len(dr_paradas)
              nc == CeilDiv(n, cs)
          IN  /\ n > cs /\ n <= MAX_WAYPOINTS
              /\ \E resps \in [1..nc -> UNION {RespMini(m) : m \in 1..cs}] :
                    /\ \A c \in 1..nc : resps[c] \in RespMini(ChunkLen(n, cs, c))
                    /\ dr_resps' = resps
                    /\ dr_result' = directions_chunked(dr_paradas, dr_destino, cs, resps)
              /\ dr_chunk_size' = cs
    /\ dr_pc' = "chunked"
    /\ UNCHANGED <<dr_api_key, dr_paradas, dr_destino>>
    /\ UNCHANGED drOthers

DrNext == DrOtimizar \/ DrChunked

SpecDir == DrInit /\ [][DrNext]_vars

IsPermutation(s, S) ==
    /\ Len(s) = Cardinality(S)
    /\ \A x \in S : \E k \in 1..Len(s) : s[k] = x

\* C6 (as stated): when a request made for one otimizar_rota_google call
\* fails (non-OK status or exception), the call returns null; no result
\* that looks like a success comes back.  Single request and chunked.
C6_FalhaRetornaNull ==
    (dr_pc = "otimizado"
     /\ \E c \in 1..Len(dr_resps) : dr_resps[c].status # "OK")
        => dr_result = Null

\* C7 (as stated): a list longer than the limit is split into
\* ceil(n / limit) chunks (30 stops: 23 and 7) and the final
\* waypoint_order is a permutation of 0..n-1.
C7_ChunkedPermutacao ==
    (dr_pc = "otimizado" /\ dr_api_key /\ Len(dr_paradas) > MAX_WAYPOINTS) =>
        LET n == Len(dr_paradas)
            chs == chunks(dr_paradas, dr_destino, MAX_WAYPOINTS)
        IN  /\ Len(dr_resps) = CeilDiv(n, MAX_WAYPOINTS)
            /\ Len(chs) = CeilDiv(n, MAX_WAYPOINTS)
            /\ n = 30 => Len(chs) = 2 /\ Len(chs[1]) = 23 /\ Len(chs[2]) = 7
            /\ dr_result # Null
            /\ IsPermutation(dr_result.waypoint_order, 0..(n - 1))

\* The first index of greatest distance to the destination, 0-based,
\* said without the model's farthest_idx
IsFarthest(far, ps, dest) ==
    /\ far \in 0..(Len(ps) - 1)
    /\ \A j \in 0..(Len(ps) - 1) :
          /\ Abs(ps[j + 1].lat - dest) <= Abs(ps[far + 1].lat - dest)
          /\ j < far => Abs(ps[j + 1].lat - dest) < Abs(ps[far + 1].lat - dest)

\* C8: a single request for n >= 2 stops returns [farthest] followed by
\* the provider's order mapped from positions among the other stops to
\* original indices; when that order is a permutation of 0..n-2 the
\* result is a permutation of 0..n-1 that starts with the farthest stop.
C8_RemapOrigem ==
    (dr_pc = "otimizado" /\ dr_api_key /\ Len(dr_paradas) >= 2
     /\ Len(dr_paradas) <= MAX_WAYPOINTS /\ dr_result # Null) =>
        LET n == Len(dr_paradas)
            resp == dr_resps[1]
            raw == IF resp.has_wp THEN resp.wp ELSE [k \in 1..(n - 1) |-> k - 1]
            order == dr_result.waypoint_order
            far == order[1]
        IN  /\ IsFarthest(far, dr_paradas, dr_destino)
            /\ Len(order) = 1 + Len(raw)
            /\ \A k \in 1..Len(raw) :
                  order[k + 1] = IF raw[k] < far THEN raw[k] ELSE raw[k] + 1
            /\ IsPermutation(raw, 0..(n - 2)) =>
                  IsPermutation(order, 0..(n - 1))

\* Three stops, the farthest in the middle, and the provider swaps the others.
C8_Witness ==
    /\ dr_pc = "otimizado" /\ Len(dr_paradas) = 3 /\ dr_result # Null
    /\ dr_resps[1].has_wp /\ dr_resps[1].wp = <<1, 0>>
    /\ dr_result.waypoint_order = <<1, 2, 0>>

----------------------------------------------------------------------------
(* calcular_horarios (src/roteirizador_utils.py:749-782)                    *)
(*                                                                          *)
(* A time of day is a number of seconds after midnight, 0..DIA-1.  The code *)
(* computes on datetimes anchored at 2000-01-01 and stores x.time(), which  *)
(* drops the date: hr_current_time is the datetime in seconds relative to   *)
(* 2000-01-01 00:00:00 (negative before that midnight) and TimeOfDay is     *)
(* .time().                                                                 *)

MaxLegs == 3
DIA == 86400

TimeOfDay(dt) == dt % DIA

\* Mutant of HorarioParada: the dwell is left out.
HorarioParadaSemDwell(i, current_time, leg, dwell) ==
    [ordem   |-> i,
     chegada |-> TimeOfDay(current_time - leg.duration_s),
     partida |-> TimeOfDay(current_time - leg.duration_s)]

\* the schedule entry of stop i, whose leg ends at datetime current_time
HorarioParada(i, current_time, leg, dwell) ==
    LET partida == current_time - leg.duration_s
        chegada == partida - dwell
    IN  [ordem   |-> i,
         chegada |-> TimeOfDay(chegada),
         partida |-> TimeOfDay(partida)]

\* Inputs: arrival times late in the morning and just after midnight, short
\* and long legs, with and without dwell.
HorariosChegada == {25200, 60}
LegDurations == {45, 600}
DwellTimes == {0, 60}

MkLegs(f) == [k \in DOMAIN f |-> [duration_s |-> f[k]]]

HrInit ==
    /\ \E n \in 0..MaxLegs : \E f \in [1..n -> LegDurations] :
            hr_legs = MkLegs(f)
    /\ hr_horario_chegada \in HorariosChegada
    /\ hr_dwell \in DwellTimes
    /\ hr_i = Len(hr_legs) - 1
    /\ hr_current_time = hr_horario_chegada
    /\ hr_schedule = <<>>
    /\ hr_tempo_veiculo = <<>>
    /\ hr_pc = "loop"
    /\ hrOthersIdle

\* one iteration of `for i in range(n_paradas - 1, -1, -1)`
HrPasso ==
    /\ hr_pc = "loop" /\ hr_i >= 0
    /\ LET leg == hr_legs[hr_i + 1]
       IN  /\ hr_schedule' =
                <<HorarioParada(hr_i, hr_current_time, leg, hr_dwell)>>
                    \o hr_schedule
           /\ hr_current_time' = hr_current_time - leg.duration_s - hr_dwell
    /\ hr_i' = hr_i - 1
    /\ UNCHANGED <<hr_legs, hr_horario_chegada, hr_dwell, hr_pc,
                   hr_tempo_veiculo, hrOthers>>

\* `return schedule`
HrRetorna ==
    /\ hr_pc = "loop" /\ hr_i < 0
    /\ hr_pc' = "fim"
    /\ UNCHANGED <<hr_legs, hr_horario_chegada, hr_dwell, hr_i,
                   hr_current_time, hr_schedule, hr_tempo_veiculo, hrOthers>>

\* calcular_tempo_veiculo (lines 785-791): both times of day are put on
\* 2000-01-01 and the difference is floored at zero.
calcular_tempo_veiculo(parada_ordem, horario_partida_parada, horario_chegada_destino) ==
    Max(0, RoundDiv(horario_chegada_destino - horario_partida_parada, 60))

\* _otimizar_background, lines 731-739: the minutes in the vehicle of the
\* passengers of each stop, from the stop's stored departure time
HrTempoVeiculo ==
    /\ hr_pc = "fim"
    /\ hr_tempo_veiculo' =
            [k \in 1..Len(hr_schedule) |->
                calcular_tempo_veiculo(k, hr_schedule[k].partida,
                                       hr_horario_chegada)]
    /\ hr_pc' = "tempos"
    /\ UNCHANGED <<hr_legs, hr_horario_chegada, hr_dwell, hr_i,
                   hr_current_time, hr_schedule, hrOthers>>

HrNext == HrPasso \/ HrRetorna \/ HrTempoVeiculo

SpecHorarios == HrInit /\ [][HrNext]_vars

\* The relations between the entries of the returned schedule and the
\* inputs: n entries, ordem 0..n-1 ascending, the last stop is left one leg
\* before the arrival time, every stop is reached dwell seconds before it
\* is left, and every stop but the last is left one leg before the next one
\* is reached.  Times of day: differences are taken modulo 24 h.
HorariosEncadeados ==
    LET n == Len(hr_legs)
        s == hr_schedule
    IN  /\ Len(s) = n
        /\ \A k \in 1..n :
                /\ s[k].ordem = k - 1
                /\ s[k].chegada \in 0..(DIA - 1)
                /\ s[k].partida \in 0..(DIA - 1)
                /\ s[k].chegada = (s[k].partida - hr_dwell) % DIA
                /\ k < n =>
                     s[k].partida =
                        (s[k + 1].chegada - hr_legs[k].duration_s) % DIA
        /\ n > 0 =>
                s[n].partida =
                    (hr_horario_chegada - hr_legs[n].duration_s) % DIA

\* one leg of 600 s, dwell 60 s, arrival 07:00:00
ExemploUmaLeg ==
    /\ Len(hr_legs) = 1 /\ hr_legs[1].duration_s = 600
    /\ hr_dwell = 60 /\ hr_horario_chegada = 25200

\* C10 as stated: for n legs, arrival time A and dwell d, calcular_horarios
\* returns n entries in ascending ordem 0..n-1 with departure[n-1] = A -
\* leg[n-1], arrival[i] = departure[i] - d and departure[i] = arrival[i+1] -
\* leg[i]; and one leg of 600 s with dwell 60 s and arrival 07:00:00 gives
\* departure 06:49:00 (24540 s) and arrival 06:48:00 (24480 s).
C10_ComoEscrito ==
    hr_pc = "fim" =>
        /\ HorariosEncadeados
        /\ ExemploUmaLeg =>
                /\ hr_schedule[1].partida = 24540
                /\ hr_schedule[1].chegada = 24480

\* C10 amended: the same relations hold for every input, and one leg of
\* 600 s with dwell 60 s and arrival 07:00:00 gives departure 06:50:00
\* (24600 s) and arrival 06:49:00 (24540 s).
C10_HorariosRetroativos ==
    hr_pc = "fim" =>
        /\ HorariosEncadeados
        /\ ExemploUmaLeg =>
                /\ hr_schedule[1].partida = 24600
                /\ hr_schedule[1].chegada = 24540

C10_Witness ==
    /\ hr_pc = "fim"
    /\ ExemploUmaLeg
    /\ hr_schedule = <<[ordem |-> 0, chegada |-> 24540, partida |-> 24600]>>

\* a schedule that crosses midnight backwards has been returned
C10_WitnessMeiaNoite ==
    /\ hr_pc = "fim"
    /\ Len(hr_schedule) >= 2
    /\ hr_schedule[1].partida > hr_schedule[2].chegada

----------------------------------------------------------------------------
(* dividir_rotas_por_tempo (src/roteirizador_utils.py:545-586)              *)
(*                                                                          *)
(* The recursion is unrolled on a stack of pending work, top first: an     *)
(* item "dividir" is a call dividir_rotas_por_tempo(g, res), an item       *)
(* "otimizar" is one turn of `for g in [grupo1, grupo2]`, which asks the   *)
(* provider for g's route.  Results are appended in the order the          *)
(* recursive code extends its lists.  The provider key is configured.      *)

MaxParadasTempo == 3
MaxCalls == 3

\* Mutant of DentroDoTempo: the limit is taken with the 90 % margin inverted.
DentroDoTempoFolgado(dur, tempo_max_min) == 9 * dur <= 10 * tempo_max_min

\* `dur <= tempo_max_min` (line 552)
DentroDoTempo(dur, tempo_max_min) == dur <= tempo_max_min

\* paradas_ordenadas (line 556)
paradas_ordenadas(g, res) ==
    [k \in 1..Len(res.waypoint_order) |-> g[res.waypoint_order[k] + 1]]

\* split_at (lines 559-567): half of the stops unless the legs before the
\* last one reach 90 % of the limit; acumulado is in minutes,
\* sum(duration_s) / 60 >= 0.9 * tempo_max_min iff sum(duration_s) >= 54 * max
split_at(g, res, tempo_max_min) ==
    LET legs == res.legs
        acumulado(i) == SumSeq([k \in 1..(i + 1) |-> legs[k].duration_s])
        hits == {i \in 0..(Len(legs) - 2) : acumulado(i) >= 54 * tempo_max_min}
    IN  IF hits = {} THEN Len(paradas_ordenadas(g, res)) \div 2
        ELSE Max(1, (CHOOSE i \in hits : \A j \in hits : i <= j) + 1)

grupo1(g, res, tempo_max_min) ==
    SubSeq(paradas_ordenadas(g, res), 1, split_at(g, res, tempo_max_min))

grupo2(g, res, tempo_max_min) ==
    LET po == paradas_ordenadas(g, res)
    IN  SubSeq(po, split_at(g, res, tempo_max_min) + 1, Len(po))

\* the turns of `for g in [grupo1, grupo2]` that are not skipped
SubGrupos(g, res, tempo_max_min) ==
    LET item(x) == [tipo |-> "otimizar", g |-> x, res |-> Null]
        g1 == grupo1(g, res, tempo_max_min)
        g2 == grupo2(g, res, tempo_max_min)
    IN  (IF g1 = <<>> THEN <<>> ELSE <<item(g1)>>)
        \o (IF g2 = <<>> THEN <<>> ELSE <<item(g2)>>)

TempoLat == {100, 300}
TempoMax == {4, 10}
LegsTempo == {[distance_m |-> 1000, duration_s |-> 300],
              [distance_m |-> 1000, duration_s |-> 360]}

\* The answers to a request of m stops: a failure, or m legs and an order
RespTempo(m) ==
    {RespFail("FAIL")}
    \cup {[status |-> "OK", has_wp |-> TRUE, wp |-> wp, legs |-> legs,
           polyline |-> "pl"] :
                wp \in Perms(0..(m - 2)), legs \in [1..m -> LegsTempo]}

\* The call: a group of stops and the route the provider gave for it
TmInit ==
    /\ \E n \in 1..MaxParadasTempo : \E f \in [1..n -> TempoLat] :
            tm_grupo_clusters = MkParadas(f)
    /\ tm_destino = 0
    /\ \E resp \in RespTempo(Len(tm_grupo_clusters)) :
            tm_resultado_otimizacao =
                otimizar_rota_google(tm_grupo_clusters, tm_destino, <<resp>>, TRUE)
    /\ tm_resultado_otimizacao # Null
    /\ tm_tempo_max_min \in TempoMax
    /\ tm_stack = <<[tipo |-> "dividir", g |-> tm_grupo_clusters,
                     res |-> tm_resultado_otimizacao]>>
    /\ tm_resultados = <<>>
    /\ tm_calls = 0
    /\ tm_pc = "exec"
    /\ tmOthersIdle

\* a call dividir_rotas_por_tempo(g, res): return [(g, res)] or split
TmDividir ==
    /\ tm_pc = "exec" /\ tm_stack # <<>> /\ Head(tm_stack).tipo = "dividir"
    /\ LET it == Head(tm_stack)
       IN  IF DentroDoTempo(it.res.total_duration_min, tm_tempo_max_min)
           THEN /\ tm_resultados' = Append(tm_resultados, [g |-> it.g, res |-> it.res])
                /\ tm_stack' = Tail(tm_stack)
           ELSE /\ tm_stack' = SubGrupos(it.g, it.res, tm_tempo_max_min)
                                    \o Tail(tm_stack)
                /\ UNCHANGED tm_resultados
    /\ UNCHANGED <<tm_grupo_clusters, tm_resultado_otimizacao, tm_tempo_max_min,
                   tm_destino, tm_calls, tm_pc, tmOthers>>

\* one turn of the loop: re-optimise g, then recurse or record (g, None)
TmOtimizar ==
    /\ tm_pc = "exec" /\ tm_stack # <<>> /\ Head(tm_stack).tipo = "otimizar"
    /\ tm_calls < MaxCalls
    /\ LET g == Head(tm_stack).g
       IN  \E resp \in RespTempo(Len(g)) :
             LET res == otimizar_rota_google(g, tm_destino, <<resp>>, TRUE)
             IN  IF res # Null
                 THEN /\ tm_stack' = <<[tipo |-> "dividir", g |-> g, res |-> res]>>
                                         \o Tail(tm_stack)
                      /\ UNCHANGED tm_resultados
                 ELSE /\ tm_resultados' = Append(tm_resultados, [g |-> g, res |-> Null])
                      /\ tm_stack' = Tail(tm_stack)
    /\ tm_calls' = tm_calls + 1
    /\ UNCHANGED <<tm_grupo_clusters, tm_resultado_otimizacao, tm_tempo_max_min,
                   tm_destino, tm_pc, tmOthers>>

\* the outermost call returns
TmRetorna ==
    /\ tm_pc = "exec" /\ tm_stack = <<>>
    /\ tm_pc' = "fim"
    /\ UNCHANGED <<tm_grupo_clusters, tm_resultado_otimizacao, tm_tempo_max_min,
                   tm_destino, tm_stack, tm_resultados, tm_calls, tmOthers>>

TmNext == TmDividir \/ TmOtimizar \/ TmRetorna

SpecTempo == TmInit /\ [][TmNext]_vars

\* C9: when the input result's total_duration_min is within tempo_max_min
\* the function returns exactly [(input stops, input result)] without any
\* provider call; and whatever it returns, every entry has a null result or
\* a result whose total_duration_min is within tempo_max_min.
C9_DentroDoTempoOuNull ==
    /\ (tm_pc = "fim"
            /\ tm_resultado_otimizacao.total_duration_min <= tm_tempo_max_min)
        => /\ tm_resultados = <<[g |-> tm_grupo_clusters,
                                  res |-> tm_resultado_otimizacao]>>
           /\ tm_calls = 0
    /\ tm_pc \in {"exec", "fim"} =>
            \A k \in 1..Len(tm_resultados) :
                \/ tm_resultados[k].res = Null
                \/ tm_resultados[k].res.total_duration_min <= tm_tempo_max_min

\* a split has returned one re-optimised sub-route within the limit and
\* one sub-route whose re-optimisation failed
C9_Witness ==
    /\ tm_pc = "fim"
    /\ tm_resultado_otimizacao.total_duration_min > tm_tempo_max_min
    /\ \E j, k \in 1..Len(tm_resultados) :
            /\ tm_resultados[j].res = Null
            /\ tm_resultados[k].res # Null
            /\ tm_resultados[k].res.total_duration_min <= tm_tempo_max_min

----------------------------------------------------------------------------
(* The rows of one roteirização and the handlers that rewrite them         *)
(* (src/routes/roteirizador.py): _otimizar_background, mover_parada,       *)
(* mover_passageiro, alocar_passageiro.                                    *)
(*                                                                          *)
(* A row's id is its position in its table; a foreign key that is None is  *)
(* 0.  All rows belong to the same roteirização, so the handlers' tests on *)
(* roteirizacao_id pass for every row that exists.  Positions are metres   *)
(* along the meridian, as everywhere.  Schedule columns are left out.      *)

MaxParadasDb == 3
MaxBases == 1
MaxOps == 2

DbLat == {100, 300}
\* rot.capacidade_veiculo: a vehicle takes the largest stop, full or not
DbCapacidades == {MaxPax, MaxPax + 1}

Roteiro(total, cap) ==
    [tipo |-> "ida", total_passageiros |-> total, capacidade_veiculo |-> cap]

Parada(rid, ordem, total, lat) ==
    [roteiro_id |-> rid, ordem |-> ordem, total_passageiros |-> total,
     ativo |-> TRUE, lat |-> lat]

Passageiro(parada_id, lat) == [parada_id |-> parada_id, ativo |-> TRUE, lat |-> lat]

\* ids of a table's rows that pass a filter, in id order
RECURSIVE IdsOnde(_, _)
IdsOnde(flags, i) ==
    IF i > Len(flags) THEN <<>>
    ELSE (IF flags[i] THEN <<i>> ELSE <<>>) \o IdsOnde(flags, i + 1)

\* parada.passageiros.filter_by(ativo=True)
PassageirosAtivos(pxs, parada_id) ==
    IdsOnde([i \in 1..Len(pxs) |-> pxs[i].parada_id = parada_id /\ pxs[i].ativo], 1)

\* PontoParada.query.filter(roteiro_id == rid, ativo == True)
ParadasDoRoteiro(ps, rid) ==
    {i \in 1..Len(ps) : ps[i].roteiro_id = rid /\ ps[i].ativo}

\* sum(p.total_passageiros or 0 for p in <active stops of the route>)
SomaTotalPassageiros(ps, rid) ==
    SumSeq([i \in 1..Len(ps) |->
                IF i \in ParadasDoRoteiro(ps, rid) THEN ps[i].total_passageiros ELSE 0])

\* .order_by(PontoParada.ordem): ids by ordem, equal ordem by id
RECURSIVE OrdenarPorOrdem(_, _)
OrdenarPorOrdem(ps, S) ==
    IF S = {} THEN <<>>
    ELSE LET m == CHOOSE i \in S : \A j \in S :
                        \/ ps[i].ordem < ps[j].ordem
                        \/ (ps[i].ordem = ps[j].ordem /\ i <= j)
         IN  <<m>> \o OrdenarPorOrdem(ps, S \ {m})

\* _otimizar_background, lines 634-641: one cluster per active stop
clusters_data(ps, pxs) ==
    LET ids == IdsOnde([i \in 1..Len(ps) |-> ps[i].ativo], 1)
    IN  [k \in 1..Len(ids) |->
            [id |-> ids[k], lat |-> ps[ids[k]].lat,
             centroid_lat |-> ps[ids[k]].lat, centroid_lng |-> 0,
             passageiro_ids |-> PassageirosAtivos(pxs, ids[k])]]

\* lines 627-631: the active stops lose their route and their ordem
LimparParadas(ps) ==
    [i \in 1..Len(ps) |->
        IF ps[i].ativo THEN [ps[i] EXCEPT !.roteiro_id = 0, !.ordem = 0] ELSE ps[i]]

\* lines 720-730: the stops of one group take the route and the next ordem
\* values, in the optimised order
RECURSIVE AtribuirParadas(_, _, _, _, _, _)
AtribuirParadas(wo, j, g, rid, ps, ordem_global) ==
    IF j > Len(wo) THEN [paradas |-> ps, ordem_global |-> ordem_global]
    ELSE IF wo[j] < Len(g) /\ g[wo[j] + 1].id \in 1..Len(ps)
    THEN AtribuirParadas(wo, j + 1, g, rid,
            [ps EXCEPT ![g[wo[j] + 1].id].roteiro_id = rid,
                       ![g[wo[j] + 1].id].ordem = ordem_global + 1],
            ordem_global + 1)
    ELSE AtribuirParadas(wo, j + 1, g, rid, ps, ordem_global)

\* lines 698-742: one RoteiroPlanejado per group that has a result
RECURSIVE CriarRoteiros(_, _, _, _, _, _, _)
CriarRoteiros(grupos, resultados, k, cap, rs, ps, ordem_global) ==
    IF k > Len(resultados) THEN [roteiros |-> rs, paradas |-> ps]
    ELSE IF resultados[k] = Null
    THEN CriarRoteiros(grupos, resultados, k + 1, cap, rs, ps, ordem_global)
    ELSE LET rid == Len(rs) + 1
             at == AtribuirParadas(resultados[k].waypoint_order, 1, grupos[k],
                                   rid, ps, ordem_global)
         IN  CriarRoteiros(grupos, resultados, k + 1, cap,
                           Append(rs, Roteiro(TotalPax(grupos[k]), cap)),
                           at.paradas, at.ordem_global)

\* The provider's answers to the request for a group of m stops: a failure
\* or a route in one of the possible orders, short enough to stay within
\* tempo_maximo_viagem (so dividir_rotas_por_tempo returns it unchanged).
RespDb(m) ==
    {RespFail("FAIL")}
    \cup {RespOk(TRUE, wp, [distance_m |-> 1000, duration_s |-> 300], m) :
                wp \in Perms(0..(m - 2))}

paradas_opt(g) == [k \in 1..Len(g) |-> [id |-> g[k].id, lat |-> g[k].lat]]

\* Cost of putting a stop at lat between the stops before and after
\* position i of the route (mover_passageiro lines 1372-1388,
\* alocar_passageiro lines 1588-1603); pd is the route's stops in order.
custo(i, pd, ps, lat, dest) ==
    LET n == Len(pd)
        prev == ps[pd[i]].lat
        nxt == ps[pd[i + 1]].lat
    IN  (IF i > 0 THEN haversine(prev, lat) ELSE 0)
        + (IF i < n
           THEN haversine(lat, nxt) - (IF i > 0 THEN haversine(prev, nxt) ELSE 0)
           ELSE haversine(lat, dest) - (IF i > 0 THEN haversine(prev, dest) ELSE 0))

\* the first position of least cost (`if custo < menor_custo`)
melhor_pos(pd, ps, lat, dest) ==
    CHOOSE i \in 0..Len(pd) : \A j \in 0..Len(pd) :
        LET ci == custo(i, pd, ps, lat, dest)
            cj == custo(j, pd, ps, lat, dest)
        IN  ci < cj \/ (ci = cj /\ i <= j)

\* Mutant of NovaParada: the new stop takes the ordem of the stop at the
\* best position and the stops after it are not pushed.
NovaParadaSemEmpurrar(ps, rid, lat, dest) ==
    LET pd == OrdenarPorOrdem(ps, ParadasDoRoteiro(ps, rid))
        n == Len(pd)
        pos == melhor_pos(pd, ps, lat, dest)
        nova_ordem == IF n > 0 /\ pos < n THEN ps[pd[pos + 1]].ordem
                      ELSE IF n > 0 THEN ps[pd[n]].ordem + 1
                      ELSE 1
    IN  Append(ps, Parada(rid, nova_ordem, 1, lat))

\* A new stop of one passenger at lat on route rid, at the best position;
\* the stops after it move one ordem up (mover_passageiro lines 1394-1417,
\* alocar_passageiro lines 1609-1630).  The new row is the last one.
NovaParada(ps, rid, lat, dest) ==
    LET pd == OrdenarPorOrdem(ps, ParadasDoRoteiro(ps, rid))
        n == Len(pd)
        pos == melhor_pos(pd, ps, lat, dest)
        nova_ordem == IF n > 0 /\ pos < n THEN ps[pd[pos + 1]].ordem
                      ELSE IF n > 0 THEN ps[pd[n]].ordem + 1
                      ELSE 1
        empurradas == {pd[k] : k \in (pos + 1)..n}
    IN  Append([i \in 1..Len(ps) |->
                    IF i \in empurradas THEN [ps[i] EXCEPT !.ordem = @ + 1]
                    ELSE ps[i]],
               Parada(rid, nova_ordem, 1, lat))

\* roteiro.total_passageiros = sum(... active stops of the route ...)
RecalcularRoteiro(rs, ps, rid) ==
    [rs EXCEPT ![rid].total_passageiros = SomaTotalPassageiros(ps, rid)]

\* mover_parada lines 1288-1293: the origin's active stops renumbered 1..
Resequenciar(ps, rid) ==
    LET ord == OrdenarPorOrdem(ps, ParadasDoRoteiro(ps, rid))
    IN  [i \in 1..Len(ps) |->
            IF \E k \in 1..Len(ord) : ord[k] = i
            THEN [ps[i] EXCEPT !.ordem = CHOOSE k \in 1..Len(ord) : ord[k] = i]
            ELSE ps[i]]

\* db.func.max(PontoParada.ordem) over a set of rows, `or 0`
MaxOrdem(ps, S) ==
    IF S = {} THEN 0 ELSE CHOOSE m \in {ps[i].ordem : i \in S} :
                              \A i \in S : ps[i].ordem <= m

\* alocar_passageiro lines 1541-1555: the route's active stop nearest to lat
parada_mais_proxima(ps, rid, lat) ==
    LET S == ParadasDoRoteiro(ps, rid)
    IN  IF S = {} THEN 0
        ELSE CHOOSE i \in S : \A j \in S :
                \/ haversine(lat, ps[i].lat) < haversine(lat, ps[j].lat)
                \/ (haversine(lat, ps[i].lat) = haversine(lat, ps[j].lat) /\ i <= j)

\* The passengers of the clustered stops: stop i has c[i] of them
RECURSIVE MkPassageirosDb(_, _, _)
MkPassageirosDb(f, c, i) ==
    IF i > Len(f) THEN <<>>
    ELSE [j \in 1..c[i] |-> Passageiro(i, f[i])] \o MkPassageirosDb(f, c, i + 1)

\* The stops' positions: moving away from the destination or towards it
DbParadasLat(n) ==
    {[i \in 1..n |-> 100 * i], [i \in 1..n |-> 100 * (n + 1 - i)]}

\* A clustered roteirização: stops with their passengers, no routes yet, and
\* base passengers not linked to any roteirização.
DbInit ==
    /\ \E n \in 1..MaxParadasDb :
         \E f \in DbParadasLat(n), c \in [1..n -> 1..MaxPax] :
            /\ db_paradas = [i \in 1..n |-> Parada(0, 0, c[i], f[i])]
            /\ db_passageiros = MkPassageirosDb(f, c, 1)
    /\ \E k \in 0..MaxBases : \E b \in [1..k -> DbLat] :
            db_bases = [i \in 1..k |->
                            [lat |-> b[i], roteirizacao_vinculada |-> FALSE]]
    /\ db_roteiros = <<>>
    /\ db_capacidade_veiculo \in DbCapacidades
    /\ db_destino_lat = 0
    /\ db_total_passageiros = Len(db_passageiros)
    /\ db_status = "clusterizado"
    /\ db_ops = 0
    /\ dbOthersIdle

\* _otimizar_background (lines 613-771): t groups are processed before the
\* timeout (all of them when there is none); a group whose request fails
\* gets no route.
DbOtimizar ==
    /\ db_status = "clusterizado"
    /\ LET ps0 == LimparParadas(db_paradas)
           grupos == dividir_rotas_por_capacidade(
                        clusters_data(ps0, db_passageiros), db_capacidade_veiculo)
       IN  \E t \in 0..Len(grupos) :
             \E resps \in [1..t -> UNION {RespDb(m) : m \in 1..MaxParadasDb}] :
               /\ \A k \in 1..t : resps[k] \in RespDb(Len(grupos[k]))
               /\ LET resultados == [k \in 1..t |->
                            otimizar_rota_google(paradas_opt(grupos[k]),
                                db_destino_lat, <<resps[k]>>, TRUE)]
                      fim == CriarRoteiros(grupos, resultados, 1,
                                db_capacidade_veiculo, <<>>, ps0, 0)
                  IN  /\ db_roteiros' = fim.roteiros
                      /\ db_paradas' = fim.paradas
    /\ db_status' = "otimizado"
    /\ UNCHANGED <<db_passageiros, db_bases, db_capacidade_veiculo,
                   db_destino_lat, db_total_passageiros, db_ops, dbOthers>>

\* mover_parada (lines 1243-1319); a request that fails a validation changes
\* nothing and is left out
DbMoverParada ==
    /\ db_status = "otimizado" /\ db_ops < MaxOps
    /\ \E parada_id \in 1..Len(db_paradas),
          roteiro_destino_id \in 1..Len(db_roteiros) :
         LET roteiro_origem_id == db_paradas[parada_id].roteiro_id
         IN  /\ roteiro_origem_id \in 1..Len(db_roteiros)
             /\ db_roteiros[roteiro_origem_id].tipo
                    = db_roteiros[roteiro_destino_id].tipo
             /\ LET ps1 == [db_paradas EXCEPT
                                ![parada_id].roteiro_id = roteiro_destino_id]
                    max_ordem == MaxOrdem(ps1,
                        ParadasDoRoteiro(ps1, roteiro_destino_id) \ {parada_id})
                    ps2 == [ps1 EXCEPT ![parada_id].ordem = max_ordem + 1]
                    ps3 == Resequenciar(ps2, roteiro_origem_id)
                IN  /\ db_paradas' = ps3
                    /\ db_roteiros' =
                          RecalcularRoteiro(
                              RecalcularRoteiro(db_roteiros, ps3, roteiro_origem_id),
                              ps3, roteiro_destino_id)
    /\ db_ops' = db_ops + 1
    /\ UNCHANGED <<db_passageiros, db_bases, db_capacidade_veiculo,
                   db_destino_lat, db_total_passageiros, db_status, dbOthers>>

\* mover_passageiro (lines 1326-1480)
DbMoverPassageiro ==
    /\ db_status = "otimizado" /\ db_ops < MaxOps
    /\ \E passageiro_id \in 1..Len(db_passageiros),
          roteiro_destino_id \in 1..Len(db_roteiros) :
         LET passageiro == db_passageiros[passageiro_id]
             parada_origem_id == passageiro.parada_id
             tem_origem == parada_origem_id \in 1..Len(db_paradas)
             roteiro_origem_id ==
                IF tem_origem THEN db_paradas[parada_origem_id].roteiro_id ELSE 0
             nova_id == Len(db_paradas) + 1
             ps1 == NovaParada(db_paradas, roteiro_destino_id, passageiro.lat,
                               db_destino_lat)
             pxs1 == [db_passageiros EXCEPT ![passageiro_id].parada_id = nova_id]
             restantes == Len(PassageirosAtivos(pxs1, parada_origem_id))
             ps2 == IF tem_origem
                    THEN [ps1 EXCEPT
                            ![parada_origem_id].total_passageiros = restantes,
                            ![parada_origem_id].ativo =
                                IF restantes = 0 THEN FALSE ELSE @]
                    ELSE ps1
             rs1 == IF roteiro_origem_id \in 1..Len(db_roteiros)
                    THEN RecalcularRoteiro(db_roteiros, ps2, roteiro_origem_id)
                    ELSE db_roteiros
         IN  /\ roteiro_origem_id # roteiro_destino_id
             /\ db_paradas' = ps2
             /\ db_passageiros' = pxs1
             /\ db_roteiros' = RecalcularRoteiro(rs1, ps2, roteiro_destino_id)
    /\ db_ops' = db_ops + 1
    /\ UNCHANGED <<db_bases, db_capacidade_veiculo, db_destino_lat,
                   db_total_passageiros, db_status, dbOthers>>

\* alocar_passageiro (lines 1487-1684); 0 is "no parada_id in the request"
DbAlocarPassageiro ==
    /\ db_status = "otimizado" /\ db_ops < MaxOps
    /\ \E passageiro_base_id \in 1..Len(db_bases),
          roteiro_id \in 1..Len(db_roteiros),
          req_parada_id \in 0..Len(db_paradas),
          criar_nova \in BOOLEAN :
         LET pb == db_bases[passageiro_base_id]
             novo_id == Len(db_passageiros) + 1
             parada_id ==
                IF req_parada_id = 0 /\ ~criar_nova
                THEN parada_mais_proxima(db_paradas, roteiro_id, pb.lat)
                ELSE req_parada_id
             ps1 == IF parada_id # 0
                    THEN [db_paradas EXCEPT ![parada_id].total_passageiros = @ + 1]
                    ELSE NovaParada(db_paradas, roteiro_id, pb.lat, db_destino_lat)
             destino_id == IF parada_id # 0 THEN parada_id ELSE Len(db_paradas) + 1
             pxs1 == Append(db_passageiros, Passageiro(destino_id, pb.lat))
         IN  /\ ~pb.roteirizacao_vinculada
             /\ pb.lat # 0
             /\ db_paradas' = ps1
             /\ db_passageiros' = pxs1
             /\ db_bases' = [db_bases EXCEPT
                                ![passageiro_base_id].roteirizacao_vinculada = TRUE]
             /\ db_roteiros' = RecalcularRoteiro(db_roteiros, ps1, roteiro_id)
             /\ db_total_passageiros' =
                    Cardinality({i \in 1..Len(pxs1) : pxs1[i].ativo})
    /\ db_ops' = db_ops + 1
    /\ UNCHANGED <<db_capacidade_veiculo, db_destino_lat, db_status, dbOthers>>

DbNext == DbOtimizar \/ DbMoverParada \/ DbMoverPassageiro \/ DbAlocarPassageiro

SpecDb == DbInit /\ [][DbNext]_vars

\* the active passengers whose stop is an active stop of route rid
PassageirosNoRoteiro(rid) ==
    {i \in 1..Len(db_passageiros) :
        /\ db_passageiros[i].ativo
        /\ db_passageiros[i].parada_id \in ParadasDoRoteiro(db_paradas, rid)}

\* C4 (as stated): in every state of an optimised roteirização, after
\* _otimizar_background and any moves and allocations, the passengers on
\* the stops of each planned route are no more than the route's
\* capacidade_veiculo.
C4_CapacidadeRespeitada ==
    db_status = "otimizado" =>
        \A rid \in 1..Len(db_roteiros) :
            Cardinality(PassageirosNoRoteiro(rid))
                <= db_roteiros[rid].capacidade_veiculo

\* C5 (as stated): after every committed mover_parada, mover_passageiro or
\* alocar_passageiro, every route's total_passageiros is the sum of
\* total_passageiros over its active stops, and every stop's
\* total_passageiros is the number of active passengers assigned to it.
C5_TotaisConsistentes ==
    (db_status = "otimizado" /\ db_ops > 0) =>
        /\ \A rid \in 1..Len(db_roteiros) :
                db_roteiros[rid].total_passageiros
                    = SomaTotalPassageiros(db_paradas, rid)
        /\ \A i \in 1..Len(db_paradas) :
                db_paradas[i].total_passageiros
                    = Len(PassageirosAtivos(db_passageiros, i))

----------------------------------------------------------------------------
(* calcular_horarios_volta (src/roteirizador_utils.py:890-919)              *)
(*                                                                          *)
(* Times as in calcular_horarios: vt_current_time is the datetime in        *)
(* seconds after 2000-01-01 00:00:00 and the stored values are times of     *)
(* day.                                                                     *)

\* Mutant of HorarioParadaVolta: the stop is left the moment it is reached.
HorarioParadaVoltaSemDwell(i, current_time, leg, dwell) ==
    [ordem   |-> i,
     chegada |-> TimeOfDay(current_time + leg.duration_s),
     partida |-> TimeOfDay(current_time + leg.duration_s)]

\* the schedule entry of stop i, whose leg starts at datetime current_time
HorarioParadaVolta(i, current_time, leg, dwell) ==
    LET chegada == current_time + leg.duration_s
        partida == chegada + dwell
    IN  [ordem   |-> i,
         chegada |-> TimeOfDay(chegada),
         partida |-> TimeOfDay(partida)]

\* Departures from the destination in the evening and just before midnight
HorariosSaida == {64800, 86340}

VtInit ==
    /\ \E n \in 0..MaxLegs : \E f \in [1..n -> LegDurations] :
            vt_legs = MkLegs(f)
    /\ vt_horario_saida \in HorariosSaida
    /\ vt_dwell \in DwellTimes
    /\ vt_i = 0
    /\ vt_current_time = vt_horario_saida
    /\ vt_schedule = <<>>
    /\ vt_pc = "loop"
    /\ vtOthersIdle

\* one iteration of `for i in range(n_legs)`
VtPasso ==
    /\ vt_pc = "loop" /\ vt_i < Len(vt_legs)
    /\ LET leg == vt_legs[vt_i + 1]
       IN  /\ vt_schedule' =
                Append(vt_schedule,
                       HorarioParadaVolta(vt_i, vt_current_time, leg, vt_dwell))
           /\ vt_current_time' = vt_current_time + leg.duration_s + vt_dwell
    /\ vt_i' = vt_i + 1
    /\ UNCHANGED <<vt_legs, vt_horario_saida, vt_dwell, vt_pc, vtOthers>>

\* `return schedule`
VtRetorna ==
    /\ vt_pc = "loop" /\ vt_i >= Len(vt_legs)
    /\ vt_pc' = "fim"
    /\ UNCHANGED <<vt_legs, vt_horario_saida, vt_dwell, vt_i, vt_current_time,
                   vt_schedule, vtOthers>>

VtNext == VtPasso \/ VtRetorna

SpecVolta == VtInit /\ [][VtNext]_vars

\* The relations between the entries of the returned schedule and the
\* inputs: n entries, ordem 0..n-1 ascending, the first stop is reached one
\* leg after the departure, every stop is left dwell seconds after it is
\* reached, and every later stop is reached one leg after the stop before
\* it is left.  Times of day: sums are taken modulo 24 h.
HorariosVoltaEncadeados ==
    LET n == Len(vt_legs)
        s == vt_schedule
    IN  /\ Len(s) = n
        /\ \A k \in 1..n :
                /\ s[k].ordem = k - 1
                /\ s[k].chegada \in 0..(DIA - 1)
                /\ s[k].partida \in 0..(DIA - 1)
                /\ s[k].partida = (s[k].chegada + vt_dwell) % DIA
                /\ k < n =>
                     s[k + 1].chegada =
                        (s[k].partida + vt_legs[k + 1].duration_s) % DIA
        /\ n > 0 =>
                s[1].chegada = (vt_horario_saida + vt_legs[1].duration_s) % DIA

\* along the route the times of day never decrease from one stop to the next
HorariosVoltaCrescentes ==
    LET s == vt_schedule
    IN  \A k \in 1..(Len(s) - 1) :
            /\ s[k].chegada <= s[k + 1].chegada
            /\ s[k].partida <= s[k + 1].partida

\* the datetime at which the last stop is left
FimDaVolta ==
    vt_horario_saida
        + SumSeq([k \in 1..Len(vt_legs) |-> vt_legs[k].duration_s + vt_dwell])

\* C11 as stated: for n legs, departure time D and dwell d,
\* calcular_horarios_volta returns n entries in ascending ordem with
\* arrival[0] = D + leg[0], departure[i] = arrival[i] + d and
\* arrival[i+1] = departure[i] + leg[i+1], and along the return route the
\* times of day never decrease from one stop to the next.
C11_ComoEscrito ==
    vt_pc = "fim" => (HorariosVoltaEncadeados /\ HorariosVoltaCrescentes)

\* C11 amended: the same relations hold for every input, as times of day
\* (modulo 24 h); the times of day never decrease from one stop to the next
\* when the last stop is left before midnight of the day of departure.
C11_HorariosProgressivos ==
    vt_pc = "fim" =>
        /\ HorariosVoltaEncadeados
        /\ FimDaVolta < DIA => HorariosVoltaCrescentes

\* a return schedule of two stops or more, with dwell, has been returned
C11_Witness ==
    /\ vt_pc = "fim"
    /\ Len(vt_schedule) >= 2 /\ vt_dwell > 0
    /\ FimDaVolta < DIA
    /\ vt_schedule[1].chegada < vt_schedule[2].chegada

----------------------------------------------------------------------------
(* _otimizar_background (src/routes/roteirizador.py:613-784), step by      *)
(* step: preparation, the loop over the capacity groups with its           *)
(* wall-clock test, dividir_rotas_por_tempo on each optimised group (the   *)
(* actions TmDividir, TmOtimizar, TmRetorna), the creation of the routes   *)
(* and the final progress record; and the except clause.                   *)
(*                                                                          *)
(* The rows are db_*.  Stops carry one passenger each and the vehicle      *)
(* takes one or two, so a group is one or two stops; tempo_maximo_viagem   *)
(* is enough for any single stop, so the splitting of a group ends.        *)
(* rot.horario_chegada is set.  The call passes departure_ts to the        *)
(* optimiser, which takes no such argument in src/roteirizador_utils.py;   *)
(* the optimiser is taken as it is there.                                  *)

TempoMaxRun == {10}

\* lines 756-757
rotas_restantes(sub_rotas_capacidade, sub_rotas_finais) ==
    Len(sub_rotas_capacidade) - Len(sub_rotas_finais)

\* lines 698-700 and 742: the entries that become a route
ComResultado(sub_rotas_finais) ==
    {k \in 1..Len(sub_rotas_finais) : sub_rotas_finais[k].res # Null}

\* line 766: the status written when the run reaches its end
ProgressoFinal(num_roteiros) == "completed"

\* Mutant of AposFalha: the group that failed is forgotten and the next
\* one is skipped with it.
AposFalhaAborta(sub_rotas_finais, g, g_idx, total_grupos) ==
    [finais |-> sub_rotas_finais, g_idx |-> total_grupos]

\* lines 677-679: the failed group is recorded and the loop continues
AposFalha(sub_rotas_finais, g, g_idx, total_grupos) ==
    [finais |-> Append(sub_rotas_finais, [g |-> g, res |-> Null]),
     g_idx |-> g_idx + 1]

ObInit ==
    /\ \E n \in 2..MaxParadasDb : \E f \in DbParadasLat(n) :
            /\ db_paradas = [i \in 1..n |-> Parada(0, 0, 1, f[i])]
            /\ db_passageiros = MkPassageirosDb(f, [i \in 1..n |-> 1], 1)
    /\ db_bases = <<>>
    /\ db_roteiros = <<>>
    /\ db_capacidade_veiculo \in 1..2
    /\ db_destino_lat = 0
    /\ db_total_passageiros = Len(db_passageiros)
    /\ db_status = "clusterizado"
    /\ db_ops = 0
    /\ ob_pc = "inicio"
    /\ ob_tempo_maximo_viagem \in TempoMaxRun
    /\ ob_sub_rotas_capacidade = <<>> /\ ob_g_idx = 0
    /\ ob_sub_rotas_finais = <<>> /\ ob_timeout_hit = FALSE
    /\ ob_status = "running" /\ ob_flash = Null /\ ob_excecao = FALSE
    /\ TmIdle
    /\ obRestIdle

\* lines 619-648: old routes deleted, stops reset, capacity groups
ObPreparar ==
    /\ ob_pc = "inicio"
    /\ LET ps0 == LimparParadas(db_paradas)
       IN  /\ db_paradas' = ps0
           /\ db_roteiros' = <<>>
           /\ ob_sub_rotas_capacidade' =
                dividir_rotas_por_capacidade(
                    clusters_data(ps0, db_passageiros), db_capacidade_veiculo)
    /\ ob_pc' = "loop"
    /\ UNCHANGED <<db_passageiros, db_bases, db_capacidade_veiculo,
                   db_destino_lat, db_total_passageiros, db_status, db_ops>>
    /\ UNCHANGED <<ob_tempo_maximo_viagem, ob_g_idx, ob_sub_rotas_finais,
                   ob_timeout_hit, ob_status, ob_flash, ob_excecao>>
    /\ UNCHANGED <<tmVars, obRest>>

\* lines 663-665: the budget is spent when the next group is about to
\* start (the first group starts right after the clock is read)
ObTimeout ==
    /\ ob_pc = "loop"
    /\ ob_g_idx >= 1 /\ ob_g_idx < Len(ob_sub_rotas_capacidade)
    /\ ob_timeout_hit' = TRUE
    /\ ob_pc' = "criar"
    /\ UNCHANGED <<ob_tempo_maximo_viagem, ob_sub_rotas_capacidade, ob_g_idx,
                   ob_sub_rotas_finais, ob_status, ob_flash, ob_excecao>>
    /\ UNCHANGED <<dbVars, tmVars, obRest>>

\* lines 667-685: the next group is optimised; on failure it is recorded
\* without a result, otherwise dividir_rotas_por_tempo is called on it
ObGrupo ==
    /\ ob_pc = "loop" /\ ob_g_idx < Len(ob_sub_rotas_capacidade)
    /\ LET g == ob_sub_rotas_capacidade[ob_g_idx + 1]
       IN  \E resp \in RespTempo(Len(g)) :
             LET resultado == otimizar_rota_google(paradas_opt(g), db_destino_lat,
                                                   <<resp>>, TRUE)
                 falha == AposFalha(ob_sub_rotas_finais, g, ob_g_idx,
                                    Len(ob_sub_rotas_capacidade))
             IN  IF resultado = Null
                 THEN /\ ob_sub_rotas_finais' = falha.finais
                      /\ ob_g_idx' = falha.g_idx
                      /\ UNCHANGED <<ob_pc, tmVars>>
                 ELSE /\ tm_grupo_clusters' = g
                      /\ tm_resultado_otimizacao' = resultado
                      /\ tm_tempo_max_min' = ob_tempo_maximo_viagem
                      /\ tm_destino' = db_destino_lat
                      /\ tm_stack' = <<[tipo |-> "dividir", g |-> g,
                                        res |-> resultado]>>
                      /\ tm_resultados' = <<>>
                      /\ tm_calls' = 0
                      /\ tm_pc' = "exec"
                      /\ ob_pc' = "tempo"
                      /\ UNCHANGED <<ob_sub_rotas_finais, ob_g_idx>>
    /\ UNCHANGED <<ob_tempo_maximo_viagem, ob_sub_rotas_capacidade,
                   ob_timeout_hit, ob_status, ob_flash, ob_excecao>>
    /\ UNCHANGED <<dbVars, obRest>>

\* line 685: sub_rotas_finais.extend(sub_tempo)
ObEstender ==
    /\ ob_pc = "tempo" /\ tm_pc = "fim"
    /\ ob_sub_rotas_finais' = ob_sub_rotas_finais \o tm_resultados
    /\ ob_g_idx' = ob_g_idx + 1
    /\ ob_pc' = "loop"
    /\ tm_grupo_clusters' = <<>> /\ tm_resultado_otimizacao' = Null
    /\ tm_tempo_max_min' = 0 /\ tm_destino' = 0 /\ tm_stack' = <<>>
    /\ tm_resultados' = <<>> /\ tm_calls' = 0 /\ tm_pc' = "idle"
    /\ UNCHANGED <<ob_tempo_maximo_viagem, ob_sub_rotas_capacidade,
                   ob_timeout_hit, ob_status, ob_flash, ob_excecao>>
    /\ UNCHANGED <<dbVars, obRest>>

\* lines 687-771: the routes are created and the run is closed
ObFinalizar ==
    /\ \/ ob_pc = "criar"
       \/ ob_pc = "loop" /\ ob_g_idx >= Len(ob_sub_rotas_capacidade)
    /\ LET finais == ob_sub_rotas_finais
           fim == CriarRoteiros([k \in 1..Len(finais) |-> finais[k].g],
                                [k \in 1..Len(finais) |-> finais[k].res],
                                1, db_capacidade_veiculo, db_roteiros,
                                db_paradas, 0)
           num_roteiros == Cardinality(ComResultado(finais))
       IN  /\ db_roteiros' = fim.roteiros
           /\ db_paradas' = fim.paradas
           /\ ob_status' = ProgressoFinal(num_roteiros)
           /\ ob_flash' =
                IF ob_timeout_hit
                THEN [cat |-> "warning", num_roteiros |-> num_roteiros,
                      rotas_restantes |->
                          rotas_restantes(ob_sub_rotas_capacidade, finais)]
                ELSE [cat |-> "success", num_roteiros |-> num_roteiros,
                      rotas_restantes |-> 0]
    /\ db_status' = "otimizado"
    /\ ob_pc' = "fim"
    /\ UNCHANGED <<db_passageiros, db_bases, db_capacidade_veiculo,
                   db_destino_lat, db_total_passageiros, db_ops>>
    /\ UNCHANGED <<ob_tempo_maximo_viagem, ob_sub_rotas_capacidade, ob_g_idx,
                   ob_sub_rotas_finais, ob_timeout_hit, ob_excecao>>
    /\ UNCHANGED <<tmVars, obRest>>

\* lines 773-784: an exception inside the try block that leaves the session
\* usable ends the run with status 'error'; the commit of the except clause
\* also writes the rows as they are (PgExcecao has the other case)
ObExcecao ==
    /\ ob_pc \in {"loop", "tempo"}
    /\ ob_status' = "error"
    /\ ob_excecao' = TRUE
    /\ ob_pc' = "fim"
    /\ UNCHANGED <<ob_tempo_maximo_viagem, ob_sub_rotas_capacidade, ob_g_idx,
                   ob_sub_rotas_finais, ob_timeout_hit, ob_flash>>
    /\ UNCHANGED <<dbVars, tmVars, obRest>>

\* line 681: the steps of the call dividir_rotas_por_tempo(...)
ObTempoDividir == ob_pc = "tempo" /\ TmDividir
ObTempoOtimizar == ob_pc = "tempo" /\ TmOtimizar
ObTempoRetorna == ob_pc = "tempo" /\ TmRetorna

ObNext ==
    \/ ObPreparar \/ ObTimeout \/ ObGrupo \/ ObEstender \/ ObFinalizar
    \/ ObExcecao \/ ObTempoDividir \/ ObTempoOtimizar \/ ObTempoRetorna

SpecRun == ObInit /\ [][ObNext]_vars

\* ids of the stops of a group
IdsDoGrupo(g) == {g[k].id : k \in 1..Len(g)}

\* the stops of the capacity groups that the loop reached
ParadasAlcancadas ==
    UNION {IdsDoGrupo(ob_sub_rotas_capacidade[k]) : k \in 1..ob_g_idx}

\* the entry's stops are exactly the active stops of one persisted route,
\* whose total is the entry's passengers
RotaPersistida(e) ==
    \E rid \in 1..Len(db_roteiros) :
        /\ ParadasDoRoteiro(db_paradas, rid) = IdsDoGrupo(e.g)
        /\ db_roteiros[rid].total_passageiros = TotalPax(e.g)

\* the entry's stops are still rows of the roteirização, without a route
ParadasSemRota(e) ==
    \A id \in IdsDoGrupo(e.g) :
        /\ id \in 1..Len(db_paradas)
        /\ db_paradas[id].ativo
        /\ db_paradas[id].roteiro_id = 0

\* C12: in a run over several capacity groups a provider failure for one
\* group does not abort the run: every stop of every group the loop reached
\* is accounted for, each (sub-)group that was optimised has its route
\* persisted, the stops of a (sub-)group whose request failed stay without a
\* route, and the run ends 'completed', not 'error'.
C12_FalhaNaoAborta ==
    (ob_pc = "fim" /\ ~ob_excecao) =>
        /\ ob_status = "completed"
        /\ db_status = "otimizado"
        /\ ~ob_timeout_hit => ob_g_idx = Len(ob_sub_rotas_capacidade)
        /\ UNION {IdsDoGrupo(ob_sub_rotas_finais[k].g) :
                    k \in 1..Len(ob_sub_rotas_finais)} = ParadasAlcancadas
        /\ Len(db_roteiros) = Cardinality(ComResultado(ob_sub_rotas_finais))
        /\ \A k \in 1..Len(ob_sub_rotas_finais) :
                IF ob_sub_rotas_finais[k].res # Null
                THEN RotaPersistida(ob_sub_rotas_finais[k])
                ELSE ParadasSemRota(ob_sub_rotas_finais[k])

\* a run of three groups has ended: the request of the first failed, the
\* two after it have their routes
C12_Witness ==
    /\ ob_pc = "fim" /\ ob_status = "completed"
    /\ Len(ob_sub_rotas_capacidade) = 3 /\ ob_g_idx = 3
    /\ ob_sub_rotas_finais[1].res = Null
    /\ Len(db_roteiros) = 2
    /\ ParadasSemRota(ob_sub_rotas_finais[1])

\* C13 (as stated): when the run hits its wall-clock budget the routes
\* already produced are committed and the operation is marked completed with
\* a warning, not failed; and when no route was produced the operation is
\* marked failed rather than completed.
C13_EstadoFinal ==
    (ob_pc = "fim" /\ ~ob_excecao) =>
        /\ ob_timeout_hit =>
                /\ Len(db_roteiros) = Cardinality(ComResultado(ob_sub_rotas_finais))
                /\ db_status = "otimizado"
                /\ ob_flash.cat = "warning"
                /\ Len(db_roteiros) > 0 => ob_status = "completed"
        /\ Len(db_roteiros) = 0 => ob_status # "completed"

\* C14 (as stated): when the run stops on timeout, the number of groups
\* reported as not processed is the number of capacity groups the loop never
\* attempted, and it is never negative, however many sub-routes the time
\* split produced for the groups that were processed.
C14_GruposNaoProcessados ==
    (ob_pc = "fim" /\ ob_timeout_hit) =>
        /\ ob_flash.rotas_restantes = Len(ob_sub_rotas_capacidade) - ob_g_idx
        /\ ob_flash.rotas_restantes >= 0

----------------------------------------------------------------------------
(* Simulation snapshots (src/routes/roteirizador.py).  sm_rot is the       *)
(* Roteirizacao row; sm_roteiros, sm_paradas and sm_simulacoes are its      *)
(* RoteiroPlanejado, PontoParada and Simulacao rows, each a function from   *)
(* row id to row; sm_seq holds the last id given in each table.  A name is  *)
(* a pair such as <<"Parada", 2>> for 'Parada 2'.  No stop is deactivated   *)
(* by these handlers, so the ativo filters are left out.  The field         *)
(* passageiros of a stop is the number of Passageiro rows that point at it  *)
(* (none for the copy of a stop on a return route).  sm_op is the last      *)
(* request served.                                                          *)

MaxOpsSim == 4
DWELL_TIME == 60

\* the layouts clusterizar_passageiros can give for the same passengers (the
\* trunk route comes from the provider): two stops, numbered either way
SmLayouts == {<<100, 200>>, <<200, 100>>}
SmCapacidades == {1, 2}
SmHorarioChegada == 25200

\* Python's None in a numeric column, and in a text
Nenhum == 0 - 1
SemTexto == <<>>

\* truthiness of a number or None, as in `if rot.total_rotas`
Truthy(x) == x # Nenhum /\ x # 0

\* a set of integers in ascending order
RECURSIVE Ascendente(_)
Ascendente(S) ==
    IF S = {} THEN <<>>
    ELSE LET m == CHOOSE x \in S : \A y \in S : x <= y
         IN  <<m>> \o Ascendente(S \ {m})

\* the ids of S in ascending order of chave, then of id
RECURSIVE OrdenarPorChave(_, _)
OrdenarPorChave(S, chave) ==
    IF S = {} THEN <<>>
    ELSE LET m == CHOOSE x \in S : \A y \in S :
                        \/ chave[x] < chave[y]
                        \/ (chave[x] = chave[y] /\ x <= y)
         IN  <<m>> \o OrdenarPorChave(S \ {m}, chave)

\* x.strftime('%H:%M') if x else None: the text "HH:MM" as <<HH, MM>>
strftime_HM(t) ==
    IF t = Nenhum THEN SemTexto ELSE <<t \div 3600, (t % 3600) \div 60>>

\* h, m = s.split(':'); time(int(h), int(m))
time_HM(s) == s[1] * 3600 + s[2] * 60

\* calcular_horarios: the schedule of a route, last stop first
RECURSIVE HorariosDesde(_, _, _, _, _)
HorariosDesde(legs, i, current_time, dwell, schedule) ==
    IF i < 0 THEN schedule
    ELSE HorariosDesde(legs, i - 1,
                       current_time - legs[i + 1].duration_s - dwell, dwell,
                       <<HorarioParada(i, current_time, legs[i + 1], dwell)>>
                            \o schedule)

calcular_horarios(legs, horario_chegada, dwell) ==
    HorariosDesde(legs, Len(legs) - 1, horario_chegada, dwell, <<>>)

\* calcular_horarios_volta: the schedule of a return route, first stop first
RECURSIVE HorariosVoltaDesde(_, _, _, _, _)
HorariosVoltaDesde(legs, i, current_time, dwell, schedule) ==
    IF i >= Len(legs) THEN schedule
    ELSE HorariosVoltaDesde(legs, i + 1,
                            current_time + legs[i + 1].duration_s + dwell, dwell,
                            Append(schedule,
                                   HorarioParadaVolta(i, current_time,
                                                      legs[i + 1], dwell)))

calcular_horarios_volta(legs, horario_saida, dwell) ==
    HorariosVoltaDesde(legs, 0, horario_saida, dwell, <<>>)

\* ids of the routes of one tipo, by ordem
RoteirosPorOrdem(roteiros, voltas) ==
    OrdenarPorChave({r \in DOMAIN roteiros :
                        (roteiros[r].tipo = "volta") = voltas},
                    [r \in DOMAIN roteiros |-> roteiros[r].ordem])

\* ids of the stops of route rid, by ordem
ParadasPorOrdem(paradas, rid) ==
    OrdenarPorChave({p \in DOMAIN paradas : paradas[p].roteiro_id = rid},
                    [p \in DOMAIN paradas |->
                        IF paradas[p].ordem = Nenhum THEN 0 ELSE paradas[p].ordem])

\* order_by(PontoParada.roteiro_id, PontoParada.ordem), None first
ParadasPorRoteiroOrdem(paradas, S) ==
    OrdenarPorChave(S,
        [p \in DOMAIN paradas |->
            (IF paradas[p].roteiro_id = Nenhum THEN 0 ELSE paradas[p].roteiro_id)
                * 1000
            + (IF paradas[p].ordem = Nenhum THEN 0 ELSE paradas[p].ordem)])

\* next((r.nome for r in rs if r.id == rid), None)
NomeDoRoteiro(roteiros, ids, rid) ==
    IF rid \in Range(ids) THEN roteiros[rid].nome ELSE SemTexto

\* the dict saved for a route (lines 849-859 and 879-888)
DadosRoteiro(r) ==
    [nome |-> r.nome, ordem |-> r.ordem,
     duracao_minutos |-> r.duracao_minutos,
     total_passageiros |-> r.total_passageiros,
     capacidade_veiculo |-> r.capacidade_veiculo,
     horario_saida |-> strftime_HM(r.horario_saida),
     horario_chegada_destino |-> strftime_HM(r.horario_chegada_destino)]

\* the dict saved for a stop (lines 860-870 and 889-899)
DadosParada(p, roteiro_nome) ==
    [nome |-> p.nome, lat |-> p.lat, ordem |-> p.ordem,
     roteiro_nome |-> roteiro_nome,
     total_passageiros |-> p.total_passageiros,
     horario_chegada |-> strftime_HM(p.horario_chegada),
     horario_partida |-> strftime_HM(p.horario_partida)]

\* the planning state as the user sees it: the routes, and for every stop
\* position its route, order and times
Visao(roteiros, paradas) ==
    [roteiros |-> {roteiros[r] : r \in DOMAIN roteiros},
     paradas  |-> {[lat |-> paradas[p].lat,
                    roteiro |-> IF paradas[p].roteiro_id \in DOMAIN roteiros
                                THEN roteiros[paradas[p].roteiro_id].nome
                                ELSE SemTexto,
                    ordem |-> paradas[p].ordem,
                    horario_chegada |-> paradas[p].horario_chegada,
                    horario_partida |-> paradas[p].horario_partida] :
                        p \in DOMAIN paradas}]

\* the Simulacao row that _salvar_simulacao builds; visao and otimizada are
\* not columns: they record the planning state at the moment of saving and
\* whether the roteirização was optimised then
NovaSimulacao(rot, roteiros, paradas, sims) ==
    LET roteiros_ida == RoteirosPorOrdem(roteiros, FALSE)
        roteiros_volta == RoteirosPorOrdem(roteiros, TRUE)
        volta_ids == Range(roteiros_volta)
        all_paradas == ParadasPorRoteiroOrdem(paradas, DOMAIN paradas)
        paradas_ida == SelectSeq(all_paradas,
                            LAMBDA p : paradas[p].roteiro_id \notin volta_ids)
        paradas_volta == SelectSeq(all_paradas,
                            LAMBDA p : paradas[p].roteiro_id \in volta_ids)
    IN  [num |-> Cardinality(DOMAIN sims) + 1,
         capacidade_veiculo |-> rot.capacidade_veiculo,
         horario_chegada |-> rot.horario_chegada,
         total_rotas |-> rot.total_rotas,
         total_paradas |-> rot.total_paradas,
         dados |->
            [roteiros |-> [k \in 1..Len(roteiros_ida) |->
                            DadosRoteiro(roteiros[roteiros_ida[k]])],
             paradas |-> [k \in 1..Len(paradas_ida) |->
                            DadosParada(paradas[paradas_ida[k]],
                                NomeDoRoteiro(roteiros, roteiros_ida,
                                    paradas[paradas_ida[k]].roteiro_id))],
             roteiros_volta |-> [k \in 1..Len(roteiros_volta) |->
                            DadosRoteiro(roteiros[roteiros_volta[k]])],
             paradas_volta |-> [k \in 1..Len(paradas_volta) |->
                            DadosParada(paradas[paradas_volta[k]],
                                NomeDoRoteiro(roteiros, roteiros_volta,
                                    paradas[paradas_volta[k]].roteiro_id))],
             horario_saida_retorno |-> strftime_HM(rot.horario_saida_retorno),
             total_rotas_volta |-> rot.total_rotas_volta],
         visao |-> Visao(roteiros, paradas),
         otimizada |-> rot.status = "otimizado" /\ Truthy(rot.total_rotas)]

\* a function with one more row
ComLinha(f, id, linha) ==
    [i \in DOMAIN f \cup {id} |-> IF i = id THEN linha ELSE f[i]]

\* Mutant of salvar_simulacao: the new row takes the place of the others.
salvar_simulacao_substitui(rot, roteiros, paradas, sims, id) ==
    ComLinha(<<>>, id, NovaSimulacao(rot, roteiros, paradas, sims))

\* _salvar_simulacao: db.session.add(simulacao)
salvar_simulacao(rot, roteiros, paradas, sims, id) ==
    ComLinha(sims, id, NovaSimulacao(rot, roteiros, paradas, sims))

\* the PontoParada rows that _clusterizar_background creates (lines 529-545)
ParadasDoLayout(layout, base) ==
    [id \in (base + 1)..(base + Len(layout)) |->
        [nome |-> <<"Parada", id - base>>, lat |-> layout[id - base],
         ordem |-> Nenhum, roteiro_id |-> Nenhum,
         horario_chegada |-> Nenhum, horario_partida |-> Nenhum,
         total_passageiros |-> 1, passageiros |-> 1]]

\* lines 627-631 and 2042-2046: the stops lose route, ordem and times
LimparParadasSm(paradas) ==
    [p \in DOMAIN paradas |->
        [paradas[p] EXCEPT !.roteiro_id = Nenhum, !.ordem = Nenhum,
                           !.horario_chegada = Nenhum, !.horario_partida = Nenhum]]

\* lines 634-641: one cluster per stop, in id order
clusters_data_sm(paradas) ==
    LET ids == Ascendente(DOMAIN paradas)
    IN  [k \in 1..Len(ids) |->
            [id |-> ids[k], lat |-> paradas[ids[k]].lat,
             centroid_lat |-> paradas[ids[k]].lat, centroid_lng |-> 0,
             passageiro_ids |->
                [j \in 1..paradas[ids[k]].passageiros |-> 10 * ids[k] + j]]]

\* The provider's answers in this specification: every request of a run
\* fails, or every request is answered with legs of one duration (within
\* tempo_maximo_viagem, so that no route is split by time).
SmRespostas == {0} \cup LegDurations

RespSm(r, m) ==
    IF r = 0 THEN RespFail("FAIL")
    ELSE RespOk(TRUE, [k \in 1..(m - 1) |-> k - 1],
                [distance_m |-> 1000, duration_s |-> r], m)

\* lines 720-733: the stops of one group take the route, the next ordem
\* values, the name 'Parada <ordem>' and the times of the schedule
RECURSIVE AtribuirParadasSm(_, _, _, _, _, _, _)
AtribuirParadasSm(wo, j, g, rid, paradas, ordem_global, schedule) ==
    IF j > Len(wo) THEN [paradas |-> paradas, ordem_global |-> ordem_global]
    ELSE IF wo[j] < Len(g) /\ g[wo[j] + 1].id \in DOMAIN paradas
    THEN LET id == g[wo[j] + 1].id
             p1 == [paradas[id] EXCEPT !.roteiro_id = rid,
                                       !.ordem = ordem_global + 1,
                                       !.nome = <<"Parada", ordem_global + 1>>]
             p2 == IF j - 1 < Len(schedule)
                   THEN [p1 EXCEPT !.horario_chegada = schedule[j].chegada,
                                   !.horario_partida = schedule[j].partida]
                   ELSE p1
         IN  AtribuirParadasSm(wo, j + 1, g, rid, [paradas EXCEPT ![id] = p2],
                               ordem_global + 1, schedule)
    ELSE AtribuirParadasSm(wo, j + 1, g, rid, paradas, ordem_global, schedule)

\* lines 698-743: one RoteiroPlanejado 'Rota <r_idx>' per group with a result
RECURSIVE CriarRoteirosSm(_, _, _, _, _, _, _, _)
CriarRoteirosSm(grupos, resultados, k, rot, roteiros, paradas, ordem_global, seq) ==
    IF k > Len(resultados)
    THEN [roteiros |-> roteiros, paradas |-> paradas, seq |-> seq]
    ELSE IF resultados[k] = Null
    THEN CriarRoteirosSm(grupos, resultados, k + 1, rot, roteiros, paradas,
                         ordem_global, seq)
    ELSE LET schedule == calcular_horarios(resultados[k].legs,
                                           rot.horario_chegada, DWELL_TIME)
             roteiro ==
                [nome |-> <<"Rota", k>>, ordem |-> k, tipo |-> "ida",
                 duracao_minutos |-> resultados[k].total_duration_min,
                 total_passageiros |-> TotalPax(grupos[k]),
                 capacidade_veiculo |-> rot.capacidade_veiculo,
                 horario_saida |-> IF schedule # <<>> THEN schedule[1].chegada
                                   ELSE Nenhum,
                 horario_chegada_destino |-> rot.horario_chegada]
             at == AtribuirParadasSm(resultados[k].waypoint_order, 1, grupos[k],
                                     seq + 1, paradas, ordem_global, schedule)
         IN  CriarRoteirosSm(grupos, resultados, k + 1, rot,
                             ComLinha(roteiros, seq + 1, roteiro),
                             at.paradas, at.ordem_global, seq + 1)

\* the snapshots after `if rot.status in ('otimizado', 'finalizado') and
\* rot.total_rotas: _salvar_simulacao(rot)` (lines 797-798 and 2033-2034)
SalvarSeOtimizado(rot, roteiros, paradas, sims, id) ==
    IF rot.status \in {"otimizado", "finalizado"} /\ Truthy(rot.total_rotas)
    THEN salvar_simulacao(rot, roteiros, paradas, sims, id)
    ELSE sims

Op(nome, sim_id) == [nome |-> nome, sim_id |-> sim_id]

\* A roteirização as _clusterizar_background leaves it, with no snapshot.
SmInit ==
    /\ \E layout \in SmLayouts : sm_paradas = ParadasDoLayout(layout, 0)
    /\ \E c \in SmCapacidades :
            sm_rot = [status |-> "clusterizado", capacidade_veiculo |-> c,
                      horario_chegada |-> SmHorarioChegada,
                      total_rotas |-> Nenhum, total_paradas |-> 2,
                      horario_saida_retorno |-> Nenhum, total_rotas_volta |-> Nenhum]
    /\ sm_roteiros = <<>>
    /\ sm_simulacoes = <<>>
    /\ sm_seq = [roteiro |-> 0, parada |-> 2, simulacao |-> 0]
    /\ sm_op = Op("clusterizar", 0)
    /\ sm_ops = 0
    /\ smOthersIdle

\* clusterizar with _clusterizar_background (lines 450-560)
SmClusterizar ==
    /\ sm_ops < MaxOpsSim
    /\ \E layout \in SmLayouts :
        /\ sm_paradas' = ParadasDoLayout(layout, sm_seq.parada)
        /\ sm_seq' = [sm_seq EXCEPT !.parada = @ + Len(layout)]
        /\ sm_rot' = [sm_rot EXCEPT !.status = "clusterizado",
                                    !.total_paradas = Len(layout)]
    /\ sm_roteiros' = <<>>
    /\ sm_op' = Op("clusterizar", 0)
    /\ sm_ops' = sm_ops + 1
    /\ UNCHANGED <<sm_simulacoes, smOthers>>

\* otimizar with _otimizar_background (lines 580-771)
SmOtimizar ==
    /\ sm_ops < MaxOpsSim
    /\ DOMAIN sm_paradas # {}
    /\ \E r \in SmRespostas :
        LET ps0 == LimparParadasSm(sm_paradas)
            grupos == dividir_rotas_por_capacidade(clusters_data_sm(ps0),
                            sm_rot.capacidade_veiculo)
            resultados == [k \in 1..Len(grupos) |->
                otimizar_rota_google(paradas_opt(grupos[k]), 0,
                                     <<RespSm(r, Len(grupos[k]))>>, TRUE)]
            fim == CriarRoteirosSm(grupos, resultados, 1, sm_rot, <<>>, ps0, 0,
                                   sm_seq.roteiro)
        IN  /\ sm_roteiros' = fim.roteiros
            /\ sm_paradas' = fim.paradas
            /\ sm_seq' = [sm_seq EXCEPT !.roteiro = fim.seq]
            /\ sm_rot' = [sm_rot EXCEPT
                            !.status = "otimizado",
                            !.total_rotas = Cardinality(DOMAIN fim.roteiros)]
    /\ sm_op' = Op("otimizar", 0)
    /\ sm_ops' = sm_ops + 1
    /\ UNCHANGED <<sm_simulacoes, smOthers>>

\* recalcular (lines 791-824); cap_form 0 stands for an empty form field
SmRecalcular ==
    /\ sm_ops < MaxOpsSim
    /\ sm_simulacoes' = SalvarSeOtimizado(sm_rot, sm_roteiros, sm_paradas,
                                          sm_simulacoes, sm_seq.simulacao + 1)
    /\ sm_seq' = [sm_seq EXCEPT !.simulacao =
                    IF sm_simulacoes' = sm_simulacoes THEN @ ELSE @ + 1]
    /\ \E cap_form \in {0} \cup SmCapacidades :
        sm_rot' = [sm_rot EXCEPT
                    !.capacidade_veiculo = IF cap_form # 0 THEN cap_form ELSE @,
                    !.status = "geocodificado"]
    /\ sm_op' = Op("recalcular", 0)
    /\ sm_ops' = sm_ops + 1
    /\ UNCHANGED <<sm_roteiros, sm_paradas, smOthers>>

\* excluir_simulacao (lines 2154-2165)
SmExcluirSimulacao ==
    /\ sm_ops < MaxOpsSim
    /\ \E sim_id \in DOMAIN sm_simulacoes :
        /\ sm_simulacoes' = [i \in DOMAIN sm_simulacoes \ {sim_id} |->
                                sm_simulacoes[i]]
        /\ sm_op' = Op("excluir_simulacao", sim_id)
    /\ sm_ops' = sm_ops + 1
    /\ UNCHANGED <<sm_rot, sm_roteiros, sm_paradas, sm_seq, smOthers>>

\* otimizar_rota_google_volta (src/roteirizador_utils.py:798-887): one
\* request, the farthest stop last
otimizar_rota_google_volta(ps, origem, resp) ==
    IF ps = <<>> THEN Null ELSE directions_request(ps, origem, resp)

\* the rows of f whose id is in S
Restrito(f, S) == [i \in DOMAIN f \cap S |-> f[i]]

\* ids of the stops that hang on a return route
ParadasDeVolta(roteiros, paradas) ==
    {p \in DOMAIN paradas :
        /\ paradas[p].roteiro_id \in DOMAIN roteiros
        /\ roteiros[paradas[p].roteiro_id].tipo = "volta"}

\* gerar_retorno, lines 1012-1032: the copies of the stops of one route
RECURSIVE CriarParadasVolta(_, _, _, _, _, _, _, _)
CriarParadasVolta(wo, j, paradas_ida, rid, todas, paradas, schedule, seq) ==
    IF j > Len(wo) THEN [paradas |-> paradas, seq |-> seq]
    ELSE IF wo[j] < Len(paradas_ida)
    THEN LET parada_ida == todas[paradas_ida[wo[j] + 1]]
             nova == [nome |-> <<"Parada V", j>>, lat |-> parada_ida.lat,
                      ordem |-> j, roteiro_id |-> rid,
                      horario_chegada |-> IF j - 1 < Len(schedule)
                                          THEN schedule[j].chegada ELSE Nenhum,
                      horario_partida |-> IF j - 1 < Len(schedule)
                                          THEN schedule[j].partida ELSE Nenhum,
                      total_passageiros |-> parada_ida.total_passageiros,
                      passageiros |-> 0]
         IN  CriarParadasVolta(wo, j + 1, paradas_ida, rid, todas,
                               ComLinha(paradas, seq + 1, nova), schedule, seq + 1)
    ELSE CriarParadasVolta(wo, j + 1, paradas_ida, rid, todas, paradas,
                           schedule, seq)

\* gerar_retorno, lines 973-1037: one return route per outbound route that
\* has stops and whose request is answered
RECURSIVE CriarVoltas(_, _, _, _, _, _, _, _, _)
CriarVoltas(rids, r_idx, r, saida, todas, roteiros, paradas, seq, num) ==
    IF r_idx > Len(rids)
    THEN [roteiros |-> roteiros, paradas |-> paradas, seq |-> seq,
          num_volta |-> num]
    ELSE LET roteiro_ida == roteiros[rids[r_idx]]
             paradas_ida == ParadasPorOrdem(todas, rids[r_idx])
             paradas_data == [k \in 1..Len(paradas_ida) |->
                                [id |-> paradas_ida[k],
                                 lat |-> todas[paradas_ida[k]].lat]]
             resultado == otimizar_rota_google_volta(paradas_data, 0,
                                RespSm(r, Len(paradas_ida)))
         IN  IF paradas_ida = <<>> \/ resultado = Null
             THEN CriarVoltas(rids, r_idx + 1, r, saida, todas,
                              roteiros, paradas, seq, num)
             ELSE LET schedule == calcular_horarios_volta(resultado.legs,
                                        saida, DWELL_TIME)
                      roteiro_volta ==
                        [nome |-> <<"Volta", r_idx>>, ordem |-> r_idx,
                         tipo |-> "volta",
                         duracao_minutos |-> resultado.total_duration_min,
                         total_passageiros |-> roteiro_ida.total_passageiros,
                         capacidade_veiculo |-> roteiro_ida.capacidade_veiculo,
                         horario_saida |-> saida,
                         horario_chegada_destino |-> Nenhum]
                      cp == CriarParadasVolta(resultado.waypoint_order, 1,
                                paradas_ida, seq.roteiro + 1, todas, paradas,
                                schedule, seq.parada)
                  IN  CriarVoltas(rids, r_idx + 1, r, saida, todas,
                            ComLinha(roteiros, seq.roteiro + 1, roteiro_volta),
                            cp.paradas,
                            [seq EXCEPT !.roteiro = @ + 1, !.parada = cp.seq],
                            num + 1)

\* gerar_retorno (lines 927-1045) with a departure at 18:00; a request that
\* is refused changes nothing and is left out
SmGerarRetorno ==
    /\ sm_ops < MaxOpsSim
    /\ sm_rot.status \in {"otimizado", "finalizado"}
    /\ RoteirosPorOrdem(sm_roteiros, FALSE) # <<>>
    /\ \E r \in SmRespostas :
        LET horario_saida == 64800
            paradas1 == Restrito(sm_paradas, DOMAIN sm_paradas
                            \ ParadasDeVolta(sm_roteiros, sm_paradas))
            roteiros1 == Restrito(sm_roteiros,
                            Range(RoteirosPorOrdem(sm_roteiros, FALSE)))
            fim == CriarVoltas(RoteirosPorOrdem(roteiros1, FALSE), 1, r,
                               horario_saida, paradas1, roteiros1, paradas1,
                               sm_seq, 0)
        IN  /\ sm_roteiros' = fim.roteiros
            /\ sm_paradas' = fim.paradas
            /\ sm_seq' = fim.seq
            /\ sm_rot' = [sm_rot EXCEPT !.horario_saida_retorno = horario_saida,
                                        !.total_rotas_volta = fim.num_volta]
    /\ sm_op' = Op("gerar_retorno", 0)
    /\ sm_ops' = sm_ops + 1
    /\ UNCHANGED <<sm_simulacoes, smOthers>>

\* salvar_simulacao_mapa, lines 1785-1813: the route takes the legs the map
\* sent, here one leg of d seconds per stop of the route
RotaEditada(rot, roteiros, paradas, rid, d) ==
    LET ps == ParadasPorOrdem(paradas, rid)
        legs == [k \in 1..Len(ps) |-> [distance_m |-> 1000, duration_s |-> d]]
        volta == roteiros[rid].tipo = "volta" /\ rot.horario_saida_retorno # Nenhum
        schedule == IF volta
                    THEN calcular_horarios_volta(legs, rot.horario_saida_retorno,
                                                 DWELL_TIME)
                    ELSE calcular_horarios(legs, rot.horario_chegada, DWELL_TIME)
        saida == IF schedule = <<>> THEN roteiros[rid].horario_saida
                 ELSE IF volta THEN rot.horario_saida_retorno
                 ELSE schedule[1].chegada
    IN  [roteiros |-> [roteiros EXCEPT
                        ![rid].duracao_minutos = RoundDiv(Len(ps) * d, 60),
                        ![rid].horario_saida = saida],
         paradas |-> [p \in DOMAIN paradas |->
                        IF \E k \in 1..Len(ps) : ps[k] = p /\ k <= Len(schedule)
                        THEN LET k == CHOOSE k \in 1..Len(ps) : ps[k] = p
                             IN  [paradas[p] EXCEPT
                                    !.horario_chegada = schedule[k].chegada,
                                    !.horario_partida = schedule[k].partida]
                        ELSE paradas[p]]]

RECURSIVE RotasEditadas(_, _, _, _, _)
RotasEditadas(rot, roteiros, paradas, rids, d) ==
    IF rids = <<>> THEN [roteiros |-> roteiros, paradas |-> paradas]
    ELSE LET e == RotaEditada(rot, roteiros, paradas, Head(rids), d)
         IN  RotasEditadas(rot, e.roteiros, e.paradas, Tail(rids), d)

\* salvar_simulacao_mapa (lines 1776-1823): d = 0 is a request without
\* 'rotas'; otherwise every route is sent with legs of d seconds
SmSalvarSimulacaoMapa ==
    /\ sm_ops < MaxOpsSim
    /\ \E d \in {0} \cup LegDurations :
        LET e == IF d = 0 THEN [roteiros |-> sm_roteiros, paradas |-> sm_paradas]
                 ELSE RotasEditadas(sm_rot, sm_roteiros, sm_paradas,
                                    Ascendente(DOMAIN sm_roteiros), d)
        IN  /\ sm_roteiros' = e.roteiros
            /\ sm_paradas' = e.paradas
            /\ sm_simulacoes' = salvar_simulacao(sm_rot, e.roteiros, e.paradas,
                                    sm_simulacoes, sm_seq.simulacao + 1)
    /\ sm_seq' = [sm_seq EXCEPT !.simulacao = @ + 1]
    /\ sm_op' = Op("salvar_simulacao_mapa", 0)
    /\ sm_ops' = sm_ops + 1
    /\ UNCHANGED <<sm_rot, smOthers>>

\* time(int(h), int(m)) of a saved text, None when the text is missing
HoraSalva(s) == IF s = SemTexto THEN Nenhum ELSE time_HM(s)

\* aplicar_simulacao, lines 2062-2082 and 2099-2116: the rows created for
\* the saved routes, and roteiro_map (saved name -> id of the last such row)
RoteirosRestaurados(rds, tipo, base) ==
    [id \in (base + 1)..(base + Len(rds)) |->
        LET rd == rds[id - base]
        IN  [nome |-> rd.nome, ordem |-> rd.ordem, tipo |-> tipo,
             duracao_minutos |-> rd.duracao_minutos,
             total_passageiros |-> rd.total_passageiros,
             capacidade_veiculo |-> rd.capacidade_veiculo,
             horario_saida |-> HoraSalva(rd.horario_saida),
             horario_chegada_destino |->
                IF tipo = "ida" THEN HoraSalva(rd.horario_chegada_destino)
                ELSE Nenhum]]

roteiro_map(rds, base) ==
    [n \in {rds[k].nome : k \in 1..Len(rds)} |->
        base + (CHOOSE k \in 1..Len(rds) :
                    /\ rds[k].nome = n
                    /\ \A j \in 1..Len(rds) : rds[j].nome = n => j <= k)]

\* rot.paradas.filter_by(nome=..., lat=..., lng=...).first(): 0 when none
PrimeiraParada(paradas, nome, lat) ==
    LET S == {p \in DOMAIN paradas : paradas[p].nome = nome /\ paradas[p].lat = lat}
    IN  IF S = {} THEN 0 ELSE CHOOSE p \in S : \A q \in S : p <= q

\* lines 2085-2095: the saved outbound stops are looked up by name and
\* position and take their saved route, ordem and times
RECURSIVE RestaurarParadas(_, _, _, _)
RestaurarParadas(pds, k, paradas, rmap) ==
    IF k > Len(pds) THEN paradas
    ELSE LET pd == pds[k]
             id == PrimeiraParada(paradas, pd.nome, pd.lat)
         IN  IF id # 0 /\ pd.roteiro_nome \in DOMAIN rmap
             THEN RestaurarParadas(pds, k + 1,
                    [paradas EXCEPT
                        ![id].roteiro_id = rmap[pd.roteiro_nome],
                        ![id].ordem = pd.ordem,
                        ![id].horario_chegada =
                            IF pd.horario_chegada # SemTexto
                            THEN time_HM(pd.horario_chegada) ELSE @,
                        ![id].horario_partida =
                            IF pd.horario_partida # SemTexto
                            THEN time_HM(pd.horario_partida) ELSE @],
                    rmap)
             ELSE RestaurarParadas(pds, k + 1, paradas, rmap)

\* lines 2119-2137: the saved return stops are created anew
RECURSIVE RestaurarParadasVolta(_, _, _, _, _)
RestaurarParadasVolta(pds, k, paradas, rmap, seq) ==
    IF k > Len(pds) THEN [paradas |-> paradas, seq |-> seq]
    ELSE LET pd == pds[k]
         IN  IF pd.roteiro_nome \in DOMAIN rmap
             THEN RestaurarParadasVolta(pds, k + 1,
                    ComLinha(paradas, seq + 1,
                        [nome |-> pd.nome, lat |-> pd.lat, ordem |-> pd.ordem,
                         roteiro_id |-> rmap[pd.roteiro_nome],
                         horario_chegada |-> HoraSalva(pd.horario_chegada),
                         horario_partida |-> HoraSalva(pd.horario_partida),
                         total_passageiros |-> pd.total_passageiros,
                         passageiros |-> 0]),
                    rmap, seq + 1)
             ELSE RestaurarParadasVolta(pds, k + 1, paradas, rmap, seq)

\* aplicar_simulacao (lines 2022-2151)
SmAplicarSimulacao ==
    /\ sm_ops < MaxOpsSim
    /\ \E sim_id \in DOMAIN sm_simulacoes :
        LET sim == sm_simulacoes[sim_id]
            dados == sim.dados
            sims1 == SalvarSeOtimizado(sm_rot, sm_roteiros, sm_paradas,
                                       sm_simulacoes, sm_seq.simulacao + 1)
            paradas1 == LimparParadasSm(
                            Restrito(sm_paradas, DOMAIN sm_paradas
                                \ ParadasDeVolta(sm_roteiros, sm_paradas)))
            n_ida == Len(dados.roteiros)
            n_volta == Len(dados.roteiros_volta)
            base == sm_seq.roteiro
            ida == RoteirosRestaurados(dados.roteiros, "ida", base)
            volta == RoteirosRestaurados(dados.roteiros_volta, "volta",
                                         base + n_ida)
            paradas2 == RestaurarParadas(dados.paradas, 1, paradas1,
                                         roteiro_map(dados.roteiros, base))
            pv == RestaurarParadasVolta(dados.paradas_volta, 1, paradas2,
                        roteiro_map(dados.roteiros_volta, base + n_ida),
                        sm_seq.parada)
        IN  /\ sm_simulacoes' = sims1
            /\ sm_roteiros' = [id \in DOMAIN ida \cup DOMAIN volta |->
                                IF id \in DOMAIN ida THEN ida[id] ELSE volta[id]]
            /\ sm_paradas' = pv.paradas
            /\ sm_seq' = [roteiro |-> base + n_ida + n_volta,
                          parada |-> pv.seq,
                          simulacao |-> IF sims1 = sm_simulacoes
                                        THEN sm_seq.simulacao
                                        ELSE sm_seq.simulacao + 1]
            /\ sm_rot' = [status |-> "otimizado",
                          capacidade_veiculo |-> sim.capacidade_veiculo,
                          horario_chegada |-> sim.horario_chegada,
                          total_rotas |-> sim.total_rotas,
                          total_paradas |-> sim.total_paradas,
                          horario_saida_retorno |->
                            IF dados.horario_saida_retorno # SemTexto
                            THEN time_HM(dados.horario_saida_retorno)
                            ELSE sm_rot.horario_saida_retorno,
                          total_rotas_volta |-> dados.total_rotas_volta]
            /\ sm_op' = Op("aplicar_simulacao", sim_id)
    /\ sm_ops' = sm_ops + 1
    /\ UNCHANGED smOthers

SmNext ==
    \/ SmClusterizar \/ SmOtimizar \/ SmRecalcular \/ SmGerarRetorno
    \/ SmSalvarSimulacaoMapa \/ SmAplicarSimulacao \/ SmExcluirSimulacao

SpecSim == SmInit /\ [][SmNext]_vars

\* the snapshot with id i is still there, with the data it was saved with
Intacta(i) ==
    i \in DOMAIN sm_simulacoes' /\ sm_simulacoes'[i] = sm_simulacoes[i]

\* C15 (as stated): the snapshots of a roteirização are an append-only log:
\* no operation changes the stored data of a snapshot or removes it, so the
\* set of snapshots only grows.
C15_SoCresce ==
    [][\A i \in DOMAIN sm_simulacoes : Intacta(i)]_vars

\* C15 (amended): no operation changes the stored data of a snapshot; a
\* snapshot is removed only by excluir_simulacao, which removes the one it
\* names and no other; snapshots are added one at a time, by recalcular,
\* aplicar_simulacao and salvar_simulacao_mapa only.
C15_SoExcluirRemove ==
    [][/\ \A i \in DOMAIN sm_simulacoes :
            IF sm_ops' # sm_ops /\ sm_op' = Op("excluir_simulacao", i)
            THEN i \notin DOMAIN sm_simulacoes'
            ELSE Intacta(i)
       /\ LET novas == DOMAIN sm_simulacoes' \ DOMAIN sm_simulacoes
          IN  novas # {} =>
                /\ Cardinality(novas) = 1
                /\ sm_op'.nome \in {"recalcular", "aplicar_simulacao",
                                    "salvar_simulacao_mapa"}]_vars

\* a snapshot saved before the last request is still there after
\* aplicar_simulacao, which added one more
C15_Witness ==
    /\ sm_op.nome = "aplicar_simulacao"
    /\ Cardinality(DOMAIN sm_simulacoes) >= 2
    /\ sm_op.sim_id \in DOMAIN sm_simulacoes

\* C16 (as stated): applying a snapshot that was saved of an optimised
\* roteirização restores the planning state of the moment of saving: the
\* same routes with the same totals and times, every stop on the same route
\* with the same order and schedule times, the same return routes and stops.
C16_AplicarRestaura ==
    (/\ sm_op.nome = "aplicar_simulacao"
     /\ sm_op.sim_id \in DOMAIN sm_simulacoes
     /\ sm_simulacoes[sm_op.sim_id].otimizada)
        => Visao(sm_roteiros, sm_paradas) = sm_simulacoes[sm_op.sim_id].visao

----------------------------------------------------------------------------
(* comparar_kml (src/kml_utils.py:187): adherence of an executed track to  *)
(* a planned route.  A coordinate is a position on the meridian in whole   *)
(* metres, so haversine is exact and round(x, 2) leaves a distance in      *)
(* metres as it is.  Totals in kilometres are kept in hundredths of a      *)
(* kilometre and the adherence in hundredths of a percent: the two         *)
(* decimals that round(x, 2) keeps.  extrair_coordenadas_kml is not        *)
(* modelled: the two coordinate lists are what it returned.                *)

MaxPontos == 3
KmPosicoes == {0, 500, 1000}
KmTolerancias == {0, 100, 500}

\* float('inf'): larger than every distance between two positions
Infinito == 1000000

\* the sum of the legs of a track, in metres (the code divides by 1000)
RECURSIVE SomaTrechos(_, _)
SomaTrechos(coordenadas, i) ==
    IF i > Len(coordenadas) - 1 THEN 0
    ELSE haversine(coordenadas[i], coordenadas[i + 1])
            + SomaTrechos(coordenadas, i + 1)

calcular_distancia_total(coordenadas) ==
    IF Len(coordenadas) < 2 THEN 0 ELSE SomaTrechos(coordenadas, 1)

\* round(calcular_distancia_total(coords), 2), in hundredths of a kilometre
KmArredondado(coords) == RoundDiv(calcular_distancia_total(coords), 10)

\* the loop of distancia_ponto_para_linha over the coordinates of the line
RECURSIVE MenorDistancia(_, _, _, _)
MenorDistancia(ponto, linha_coords, i, menor_distancia) ==
    IF i > Len(linha_coords) THEN menor_distancia
    ELSE LET dist == haversine(ponto, linha_coords[i])
         IN  MenorDistancia(ponto, linha_coords, i + 1,
                            IF dist < menor_distancia THEN dist
                            ELSE menor_distancia)

distancia_ponto_para_linha(ponto, linha_coords) ==
    IF linha_coords = <<>> THEN Infinito
    ELSE MenorDistancia(ponto, linha_coords, 1, Infinito)

\* variant: a point at exactly the tolerance is outside as well
ForaDaRotaNoLimite(dist, tolerancia_metros) == dist >= tolerancia_metros

\* direction 1: the executed point is outside the planned route
ForaDaRota(dist, tolerancia_metros) == dist > tolerancia_metros

\* direction 2: the planned point was covered by the executed track
Coberto(dist, tolerancia_metros) == dist <= tolerancia_metros

\* direction 1: the loop over the executed points
RECURSIVE Direcao1(_, _, _, _, _, _)
Direcao1(coords_executado, coords_planejado, tol, i, pontos_fora, desvio_maximo) ==
    IF i > Len(coords_executado)
    THEN [pontos_fora |-> pontos_fora, desvio_maximo |-> desvio_maximo]
    ELSE LET dist == distancia_ponto_para_linha(coords_executado[i],
                                                coords_planejado)
         IN  Direcao1(coords_executado, coords_planejado, tol, i + 1,
                      IF ForaDaRota(dist, tol) THEN pontos_fora + 1
                      ELSE pontos_fora,
                      IF dist > desvio_maximo THEN dist ELSE desvio_maximo)

\* direction 2: the loop over the planned points
RECURSIVE Direcao2(_, _, _, _, _)
Direcao2(coords_planejado, coords_executado, tol, i, cobertos) ==
    IF i > Len(coords_planejado) THEN cobertos
    ELSE LET dist == distancia_ponto_para_linha(coords_planejado[i],
                                                coords_executado)
         IN  Direcao2(coords_planejado, coords_executado, tol, i + 1,
                      IF Coberto(dist, tol) THEN cobertos + 1 ELSE cobertos)

\* round(min(a1 / n1, a2 / n2) * 100, 2), in hundredths of a percent
AderenciaFinal(a1, n1, a2, n2) ==
    IF a1 * n2 <= a2 * n1 THEN RoundDiv(10000 * a1, n1)
    ELSE RoundDiv(10000 * a2, n2)

ResultadoVazio ==
    [km_planejado |-> Nenhum, km_percorrido |-> Nenhum,
     desvio_maximo_metros |-> Nenhum, aderencia_percentual |-> Nenhum,
     pontos_fora_rota |-> Nenhum]

comparar_kml(planejado_existe, coords_planejado, coords_executado, tol) ==
    IF coords_executado = <<>> THEN ResultadoVazio
    ELSE IF ~planejado_existe \/ coords_planejado = <<>>
    THEN [ResultadoVazio EXCEPT
            !.km_percorrido = KmArredondado(coords_executado)]
    ELSE LET d1 == Direcao1(coords_executado, coords_planejado, tol, 1, 0, 0)
             cobertos == Direcao2(coords_planejado, coords_executado, tol, 1, 0)
         IN  [km_planejado |-> KmArredondado(coords_planejado),
              km_percorrido |-> KmArredondado(coords_executado),
              desvio_maximo_metros |-> d1.desvio_maximo,
              aderencia_percentual |->
                  AderenciaFinal(Len(coords_executado) - d1.pontos_fora,
                                 Len(coords_executado),
                                 cobertos, Len(coords_planejado)),
              pontos_fora_rota |-> d1.pontos_fora]

KmInit ==
    /\ km_pc = "inicio"
    /\ km_resultado = Null
    /\ km_planejado_existe \in BOOLEAN
    /\ km_coords_planejado \in SeqsUpTo(KmPosicoes, MaxPontos)
    /\ km_planejado_existe = FALSE => km_coords_planejado = <<>>
    /\ km_coords_executado \in SeqsUpTo(KmPosicoes, MaxPontos)
    /\ km_tolerancia_metros \in KmTolerancias
    /\ kmOthersIdle

KmComparar ==
    /\ km_pc = "inicio"
    /\ km_resultado' = comparar_kml(km_planejado_existe, km_coords_planejado,
                                    km_coords_executado, km_tolerancia_metros)
    /\ km_pc' = "fim"
    /\ UNCHANGED <<km_planejado_existe, km_coords_planejado,
                   km_coords_executado, km_tolerancia_metros, kmOthers>>

KmNext == KmComparar

SpecKml == KmInit /\ [][KmNext]_vars

\* both files were read and gave coordinates, and the comparison is done
KmComparado ==
    /\ km_pc = "fim" /\ km_planejado_existe
    /\ km_coords_planejado # <<>> /\ km_coords_executado # <<>>

\* C18: comparing an executed list identical to the planned one (not empty),
\* with any tolerance >= 0, gives adherence 100, maximum deviation 0 and no
\* point out of route.
C18_Identicos ==
    (KmComparado /\ km_coords_executado = km_coords_planejado)
        => /\ km_resultado.aderencia_percentual = 10000
           /\ km_resultado.desvio_maximo_metros = 0
           /\ km_resultado.pontos_fora_rota = 0

C18_Witness ==
    /\ KmComparado /\ km_coords_executado = km_coords_planejado
    /\ km_coords_executado = <<0, 1000, 500>>
    /\ km_tolerancia_metros = 0
    /\ km_resultado.aderencia_percentual = 10000

\* the least element of a non-empty set of numbers
MinDe(S) == CHOOSE x \in S : \A y \in S : x <= y

\* distance of a point to the segment between two positions of the meridian
DistSegmento(p, a, b) ==
    IF p < Min(a, b) THEN Min(a, b) - p
    ELSE IF p > Max(a, b) THEN p - Max(a, b)
    ELSE 0

\* distance of a point to a polyline: to the nearest point of any segment
DistPolilinha(p, linha) ==
    MinDe({haversine(p, linha[1])}
          \cup {DistSegmento(p, linha[i], linha[i + 1]) : i \in 1..(Len(linha) - 1)})

\* the executed points within the tolerance of the planned polyline
NaRota ==
    {i \in DOMAIN km_coords_executado :
        DistPolilinha(km_coords_executado[i], km_coords_planejado)
            <= km_tolerancia_metros}

\* the planned points that have some executed point within the tolerance
Cobertos ==
    {j \in DOMAIN km_coords_planejado :
        \E i \in DOMAIN km_coords_executado :
            haversine(km_coords_planejado[j], km_coords_executado[i])
                <= km_tolerancia_metros}

\* C19: with both lists non-empty, aderencia_percentual = min(d1, d2) * 100,
\* where d1 is the fraction of executed points within the tolerance of the
\* planned route and d2 the fraction of planned points that have some
\* executed point within the tolerance; the value lies between 0 and 100,
\* and pontos_fora_rota is the number of executed points outside in d1.
\* (a = 100 * min(x / n, y / m), in hundredths, is a * n * m = 10000 *
\* min(x * m, y * n).)
C19_AderenciaMinima ==
    KmComparado =>
        LET n == Len(km_coords_executado)
            m == Len(km_coords_planejado)
        IN  /\ km_resultado.aderencia_percentual * n * m
                  = 10000 * Min(Cardinality(NaRota) * m, Cardinality(Cobertos) * n)
            /\ km_resultado.aderencia_percentual \in 0..10000
            /\ km_resultado.pontos_fora_rota = n - Cardinality(NaRota)

\* C20: in direction 1 an executed point is on-route exactly when its
\* distance to the planned polyline (the nearest point of any segment, not
\* only the vertices) is within the tolerance: the points counted out of
\* route are those whose distance to the polyline exceeds the tolerance.
C20_Direcao1Polilinha ==
    KmComparado =>
        km_resultado.pontos_fora_rota
            = Cardinality(DOMAIN km_coords_executado \ NaRota)

----------------------------------------------------------------------------
(* Further claims about _directions_chunked (SpecDir)                      *)

\* every request of the run was answered with status OK
TodasRespondidas ==
    \A c \in 1..Len(dr_resps) : dr_resps[c].status = "OK"

\* the stop at position k (from 1) of the final order
ParadaNaOrdem(k) == dr_paradas[dr_result.waypoint_order[k] + 1]

\* C27: in _directions_chunked, for every non-last chunk i the stop used as
\* the destination of chunk i's request (the first stop of chunk i+1 in
\* farthest-first order) is also the first stop of chunk i+1 in the final
\* order, so the legs chain into one path, and there are as many legs as
\* stops in waypoint_order.  Stated for the runs in which every request was
\* answered, and comparing positions, so that two stops at one place count
\* as the same stop.
C27_ChunksEncadeados ==
    (dr_pc = "chunked" /\ TodasRespondidas) =>
        LET chs == chunks(dr_paradas, dr_destino, dr_chunk_size)
        IN  /\ Len(dr_result.legs) = Len(dr_result.waypoint_order)
            /\ \A i \in 1..(Len(chs) - 1) :
                  ParadaNaOrdem(i * dr_chunk_size + 1).lat = chs[i + 1][1].lat

----------------------------------------------------------------------------
(* Further claims about calcular_horarios (SpecHorarios)                   *)

\* the seconds from leaving stop i (from 1) to the destination: the legs
\* from stop i on and the dwell of the stops after it
SegundosAteDestino(i) ==
    SumSeq([k \in 1..(Len(hr_legs) - i + 1) |-> hr_legs[i + k - 1].duration_s])
        + (Len(hr_legs) - i) * hr_dwell

\* C28: for every schedule that calcular_horarios produces, the minutes in
\* the vehicle that calcular_tempo_veiculo computes for stop i from its
\* departure time and the arrival time are the leg durations from stop i to
\* the destination plus the dwell of the stops after i, rounded to minutes;
\* also when the schedule reaches back across midnight.
C28_TempoNoVeiculo ==
    hr_pc = "tempos" =>
        \A i \in 1..Len(hr_legs) :
            hr_tempo_veiculo[i] = RoundDiv(SegundosAteDestino(i), 60)

----------------------------------------------------------------------------
(* Further claims about dividir_rotas_por_tempo (SpecTempo)                *)

\* the call on top of the stack is about to split its stops
TmVaiDividir ==
    /\ tm_pc = "exec" /\ tm_stack # <<>> /\ Head(tm_stack).tipo = "dividir"
    /\ ~DentroDoTempo(Head(tm_stack).res.total_duration_min, tm_tempo_max_min)

\* C23: dividir_rotas_por_tempo terminates for every group and every limit
\* when the provider answers, because every recursive call is made on a
\* strictly smaller stop list; in particular for a single stop whose route
\* exceeds tempo_max_min.  Checked on every split: each sub-group handed to
\* the loop that re-optimises and recurses is shorter than the group split.
C23_ListaMenor ==
    [][TmVaiDividir =>
          \A k \in 1..(Len(tm_stack') - Len(tm_stack) + 1) :
              Len(tm_stack'[k].g) < Len(Head(tm_stack).g)]_vars

----------------------------------------------------------------------------
(* Further claims about the rows of a roteirização (SpecDb)                *)

\* C29: from the state left by an optimisation, after any sequence of
\* mover_parada, mover_passageiro and alocar_passageiro no two active stops
\* of the same route have the same ordem: the stop order of each route
\* stays a strict total order.
C29_OrdemSemRepeticao ==
    db_status = "otimizado" =>
        \A i, j \in 1..Len(db_paradas) :
            (/\ i # j
             /\ db_paradas[i].ativo /\ db_paradas[j].ativo
             /\ db_paradas[i].roteiro_id # 0
             /\ db_paradas[i].roteiro_id = db_paradas[j].roteiro_id)
                => db_paradas[i].ordem # db_paradas[j].ordem

\* Two operations were committed, the last one created a stop that was put
\* before another stop of its route, which was pushed one place up.
C29_Witness ==
    /\ db_status = "otimizado" /\ db_ops = 2
    /\ LET nova == Len(db_paradas)
       IN  /\ nova > 1 /\ db_paradas[nova].ativo
           /\ \E j \in 1..(nova - 1) :
                /\ db_paradas[j].ativo
                /\ db_paradas[j].roteiro_id = db_paradas[nova].roteiro_id
                /\ db_paradas[j].ordem = db_paradas[nova].ordem + 1
    /\ \E i \in 1..Len(db_paradas) : ~db_paradas[i].ativo

----------------------------------------------------------------------------
\* src/combustivel_utils.py: analisar_combustivel.  Km/L values are in
\* hundredths; kilometres and odometer readings are whole numbers.  The
\* sums of litres and kilometres and the mean, which no alert depends on,
\* are left out of the statistics.

MaxRegistros == 3

CbKmlBase == {1000, 1500}
CbKmlSonda == {0, 500, 600, 750, 900, 2000, 2002}
CbHodometros == {<<0, 100>>, <<100, 200>>, <<200, 100>>}

MkRegistro(prefixo, modelo, km, kml, hod, flag) ==
    [prefixo |-> prefixo, modelo |-> modelo, km |-> km, kml |-> kml,
     hodometro_inicio |-> hod[1], hodometro_fim |-> hod[2], flag |-> flag]

\* Earlier fuellings of two vehicles of one model, without a system flag.
CbRegistrosBase ==
    {MkRegistro(p, "OF-1721", 100, k, <<0, 100>>, "") :
        p \in {1, 2}, k \in CbKmlBase}

\* The last fuelling of vehicle 1, with every combination of defects.
CbRegistrosSonda ==
    {MkRegistro(1, m, km, k, h, f) :
        m \in {"OF-1721", ""}, km \in {0, 100}, k \in CbKmlSonda,
        h \in CbHodometros, f \in {"", "*"}}

ModeloDe(r) == IF r.modelo = "" THEN "DESCONHECIDO" ELSE r.modelo

por_modelo(registros, modelo) ==
    SelectSeq(registros, LAMBDA r : ModeloDe(r) = modelo)

kml_validos(regs) ==
    LET validos == SelectSeq(regs, LAMBDA r : r.kml > 0 /\ r.km > 0)
    IN  [i \in 1..Len(validos) |-> validos[i].kml]

RECURSIVE Ordenado(_)
Ordenado(s) ==
    IF s = <<>> THEN <<>>
    ELSE LET resto == Ordenado(Tail(s))
             menores == SelectSeq(resto, LAMBDA x : x <= Head(s))
             maiores == SelectSeq(resto, LAMBDA x : x > Head(s))
         IN  menores \o <<Head(s)>> \o maiores

\* statistics.median, doubled so that the mean of the two middle values of an
\* even number of values stays a whole number.
DobroDaMediana(data) ==
    LET o == Ordenado(data)
        n == Len(o)
    IN  IF n % 2 = 1 THEN 2 * o[(n + 1) \div 2]
        ELSE o[n \div 2] + o[n \div 2 + 1]

modelos_stats(registros) ==
    [modelo \in {ModeloDe(registros[i]) : i \in DOMAIN registros} |->
        LET regs == por_modelo(registros, modelo)
            vs == kml_validos(regs)
        IN  [mediana_kml |-> IF vs = <<>> THEN 0
                             ELSE RoundDiv(DobroDaMediana(vs), 2),
             min_kml |-> IF vs = <<>> THEN 0 ELSE Ordenado(vs)[1],
             max_kml |-> IF vs = <<>> THEN 0 ELSE Ordenado(vs)[Len(vs)],
             total_registros |-> Len(regs),
             total_veiculos |->
                 Cardinality({regs[i].prefixo : i \in DOMAIN regs})]]

Problema(tipo, severidade) == [tipo |-> tipo, severidade |-> severidade]

\* percentual = (kml / ref_kml) * 100 compared with a limit, without division
PercentualAteLimite(kml, ref_kml, limite) == kml * 100 <= limite * ref_kml

PercentualAbaixoDe(kml, ref_kml, limite) == kml * 100 < limite * ref_kml

PercentualAcimaDe(kml, ref_kml, limite) == kml * 100 > limite * ref_kml

ProblemasPercentual(r, ref_kml) ==
    IF ref_kml > 0 /\ r.kml > 0 /\ r.km > 0
    THEN (IF PercentualAbaixoDe(r.kml, ref_kml, 60)
          THEN <<Problema("KML_MUITO_BAIXO", "alta")>>
          ELSE IF PercentualAbaixoDe(r.kml, ref_kml, 75)
          THEN <<Problema("KML_BAIXO", "media")>>
          ELSE <<>>)
         \o
         (IF PercentualAcimaDe(r.kml, ref_kml, 200)
          THEN <<Problema("KML_MUITO_ALTO", "alta")>>
          ELSE IF PercentualAcimaDe(r.kml, ref_kml, 150)
          THEN <<Problema("KML_ALTO", "media")>>
          ELSE <<>>)
    ELSE <<>>

\* pref_regs[pref_idx - 1]: the record of the same vehicle just before idx,
\* 0 when idx is the vehicle's first record
IndiceAnterior(registros, idx) ==
    LET S == {j \in 1..(idx - 1) :
                 registros[j].prefixo = registros[idx].prefixo}
    IN  IF S = {} THEN 0 ELSE CHOOSE j \in S : \A k \in S : k <= j

FlagSemOutros(r, problemas) == r.flag = "*"

FlagSistema(r, problemas) == r.flag = "*" /\ problemas = <<>>

ProblemasDoRegistro(registros, idx, ref_kml) ==
    LET r == registros[idx]
        ant == IndiceAnterior(registros, idx)
        p1 == IF r.km <= 0
              THEN <<Problema("KM_INVALIDO", "alta")>> ELSE <<>>
        p2 == IF r.hodometro_fim < r.hodometro_inicio
              THEN <<Problema("HODOMETRO_DECRESCENTE", "alta")>> ELSE <<>>
        p5 == IF ant > 0
              THEN (IF r.hodometro_inicio < registros[ant].hodometro_fim
                    THEN <<Problema("HODOMETRO_INCONSISTENTE", "alta")>>
                    ELSE <<>>)
              ELSE <<>>
        problemas == p1 \o p2 \o ProblemasPercentual(r, ref_kml) \o p5
    IN  problemas \o (IF FlagSistema(r, problemas)
                      THEN <<Problema("FLAG_SISTEMA", "baixa")>>
                      ELSE <<>>)

\* The order Python's max gives the three severity strings: they are compared
\* as text, "alta" < "baixa" < "media".
OrdemDeTexto(s) ==
    CASE s = "alta" -> 1 [] s = "baixa" -> 2 [] s = "media" -> 3

severidade_max(problemas) ==
    LET S == {problemas[i].severidade : i \in DOMAIN problemas}
    IN  CHOOSE s \in S : \A t \in S : OrdemDeTexto(t) <= OrdemDeTexto(s)

Alertas(registros, stats) ==
    LET todos ==
            [idx \in 1..Len(registros) |->
                LET ref_kml == stats[ModeloDe(registros[idx])].mediana_kml
                    ps == ProblemasDoRegistro(registros, idx, ref_kml)
                IN  [indice |-> idx - 1, problemas |-> ps,
                     severidade_max |-> IF ps = <<>> THEN "baixa"
                                        ELSE severidade_max(ps)]]
    IN  SelectSeq(todos, LAMBDA a : a.problemas # <<>>)

ContarSeveridade(alertas, s) ==
    Cardinality({i \in DOMAIN alertas : alertas[i].severidade_max = s})

analisar_combustivel(registros) ==
    IF registros = <<>>
    THEN [resumo |-> <<>>, modelos |-> <<>>, alertas |-> <<>>]
    ELSE LET stats == modelos_stats(registros)
             alertas == Alertas(registros, stats)
         IN  [resumo |->
                  [total_registros |-> Len(registros),
                   total_veiculos |->
                       Cardinality({registros[i].prefixo :
                                       i \in DOMAIN registros}),
                   total_modelos |-> Cardinality(DOMAIN stats),
                   total_alertas |-> Len(alertas),
                   alertas_alta |-> ContarSeveridade(alertas, "alta"),
                   alertas_media |-> ContarSeveridade(alertas, "media"),
                   alertas_baixa |-> ContarSeveridade(alertas, "baixa")],
              modelos |-> stats,
              alertas |-> alertas]

CbInit ==
    /\ cb_pc = "inicio"
    /\ cb_resultado = Null
    /\ \/ cb_registros = <<>>
       \/ \E base \in SeqsUpTo(CbRegistrosBase, MaxRegistros - 1) :
          \E sonda \in CbRegistrosSonda :
              cb_registros = base \o <<sonda>>
    /\ cbOthersIdle

CbAnalisar ==
    /\ cb_pc = "inicio"
    /\ cb_resultado' = analisar_combustivel(cb_registros)
    /\ cb_pc' = "fim"
    /\ UNCHANGED <<cb_registros, cbOthers>>

CbNext == CbAnalisar

SpecCombustivel == CbInit /\ [][CbNext]_vars

CbAnalisado == cb_pc = "fim" /\ cb_registros # <<>>

\* the problem types reported for the record at position idx
TiposDoRegistro(idx) ==
    UNION {{cb_resultado.alertas[j].problemas[k].tipo :
               k \in DOMAIN cb_resultado.alertas[j].problemas} :
           j \in {i \in DOMAIN cb_resultado.alertas :
                     cb_resultado.alertas[i].indice = idx - 1}}

TiposPercentuais ==
    {"KML_MUITO_BAIXO", "KML_BAIXO", "KML_MUITO_ALTO", "KML_ALTO"}

\* the reference of the record at position idx: its model's reported median
MedianaDoModelo(idx) ==
    cb_resultado.modelos[ModeloDe(cb_registros[idx])].mediana_kml

\* the valid km/L values of the model of the record at position idx
ValidosDoModelo(idx) ==
    {i \in DOMAIN cb_registros :
        /\ ModeloDe(cb_registros[i]) = ModeloDe(cb_registros[idx])
        /\ cb_registros[i].kml > 0 /\ cb_registros[i].km > 0}

FlagEsperada(kml, ref) ==
    IF kml * 100 < 60 * ref THEN {"KML_MUITO_BAIXO"}
    ELSE IF kml * 100 < 75 * ref THEN {"KML_BAIXO"}
    ELSE IF kml * 100 > 200 * ref THEN {"KML_MUITO_ALTO"}
    ELSE IF kml * 100 > 150 * ref THEN {"KML_ALTO"}
    ELSE {}

\* C21: after the analysis, the reference of every record is a median of the
\* valid km/L values of its model (at most half of them lie below it and at
\* most half above it), and a record with positive km and km/L whose model
\* has a positive median carries exactly the percentage flag of its ratio p to
\* that median: KML_MUITO_BAIXO for p < 60, KML_BAIXO for 60 <= p < 75,
\* KML_MUITO_ALTO for p > 200, KML_ALTO for 150 < p <= 200 and none for
\* 75 <= p <= 150; no record carries two percentage flags and a record
\* without positive km and km/L carries none.
C21_FlagsPercentuais ==
    CbAnalisado =>
        \A idx \in DOMAIN cb_registros :
            LET r == cb_registros[idx]
                ref == MedianaDoModelo(idx)
                V == ValidosDoModelo(idx)
                pct == TiposDoRegistro(idx) \cap TiposPercentuais
            IN  /\ 2 * Cardinality({i \in V : cb_registros[i].kml < ref})
                       <= Cardinality(V)
                /\ 2 * Cardinality({i \in V : cb_registros[i].kml > ref})
                       <= Cardinality(V)
                /\ (V = {}) = (ref = 0)
                /\ pct = IF r.km > 0 /\ r.kml > 0 /\ ref > 0
                         THEN FlagEsperada(r.kml, ref) ELSE {}
                /\ \A j \in DOMAIN cb_resultado.alertas :
                       Cardinality(
                           {k \in DOMAIN cb_resultado.alertas[j].problemas :
                               cb_resultado.alertas[j].problemas[k].tipo
                                   \in TiposPercentuais}) <= 1

\* A record at 5.00 km/L against a model median of 10.00 is flagged
\* KML_MUITO_BAIXO while a record of the same model at exactly 150% of the
\* median carries no percentage flag.
C21_Witness ==
    /\ CbAnalisado
    /\ \E idx \in DOMAIN cb_registros :
           /\ cb_registros[idx].kml = 500 /\ cb_registros[idx].km > 0
           /\ MedianaDoModelo(idx) = 1000
           /\ "KML_MUITO_BAIXO" \in TiposDoRegistro(idx)
    /\ \E idx \in DOMAIN cb_registros :
           /\ cb_registros[idx].kml = 1500
           /\ MedianaDoModelo(idx) = 1000
           /\ TiposDoRegistro(idx) \cap TiposPercentuais = {}

\* another problem of the record at position idx, from the record itself
OutroProblema(idx) ==
    LET r == cb_registros[idx]
        ref == MedianaDoModelo(idx)
    IN  \/ r.km <= 0
        \/ r.hodometro_fim < r.hodometro_inicio
        \/ /\ r.km > 0 /\ r.kml > 0 /\ ref > 0
           /\ (r.kml * 100 < 75 * ref \/ r.kml * 100 > 150 * ref)
        \/ \E j \in 1..(idx - 1) :
               /\ cb_registros[j].prefixo = r.prefixo
               /\ \A k \in (j + 1)..(idx - 1) :
                      cb_registros[k].prefixo # r.prefixo
               /\ r.hodometro_inicio < cb_registros[j].hodometro_fim

\* C22: after the analysis a record carries FLAG_SISTEMA exactly when its
\* flag is '*' and it has no other problem (invalid km, decreasing odometer,
\* a percentage flag, an odometer reading below the end of the same vehicle's
\* previous record), and FLAG_SISTEMA never stands beside another problem
\* type.
C22_FlagSistema ==
    CbAnalisado =>
        \A idx \in DOMAIN cb_registros :
            /\ ("FLAG_SISTEMA" \in TiposDoRegistro(idx))
                   = (cb_registros[idx].flag = "*" /\ ~OutroProblema(idx))
            /\ "FLAG_SISTEMA" \in TiposDoRegistro(idx)
                   => TiposDoRegistro(idx) = {"FLAG_SISTEMA"}

\* A flagged record without any other problem is reported with FLAG_SISTEMA
\* after an earlier record of the same analysis was reported for its
\* odometer.
C22_Witness ==
    /\ CbAnalisado
    /\ \E idx \in DOMAIN cb_registros :
           /\ cb_registros[idx].flag = "*"
           /\ TiposDoRegistro(idx) = {"FLAG_SISTEMA"}
    /\ \E idx \in DOMAIN cb_registros :
           "HODOMETRO_INCONSISTENTE" \in TiposDoRegistro(idx)

\* the highest severity of an alert under alta > media > baixa
MaiorSeveridade(a) ==
    LET S == {a.problemas[k].severidade : k \in DOMAIN a.problemas}
    IN  IF "alta" \in S THEN "alta"
        ELSE IF "media" \in S THEN "media" ELSE "baixa"

\* C26: after the analysis every alert's severidade_max is the highest
\* severity among its problems under alta > media > baixa, the summary counts
\* the alerts by that severity (a record with an alta and a media problem
\* counts in alertas_alta), and alertas_alta + alertas_media + alertas_baixa
\* equals total_alertas.
C26_SeveridadeMaxima ==
    CbAnalisado =>
        LET alertas == cb_resultado.alertas
            resumo == cb_resultado.resumo
            Com(s) == Cardinality({i \in DOMAIN alertas :
                                      MaiorSeveridade(alertas[i]) = s})
        IN  /\ \A i \in DOMAIN alertas :
                   alertas[i].severidade_max = MaiorSeveridade(alertas[i])
            /\ resumo.alertas_alta = Com("alta")
            /\ resumo.alertas_media = Com("media")
            /\ resumo.alertas_baixa = Com("baixa")
            /\ resumo.alertas_alta + resumo.alertas_media
                   + resumo.alertas_baixa = resumo.total_alertas

----------------------------------------------------------------------------
\* src/routes/roteirizador.py: the progress record of one roteirizacao
\* (progresso_json), the two routes that start a background thread, the
\* threads themselves, the progress poll and limpar_progresso.  Each request
\* runs in its own thread of the web server: a step is what one thread does
\* between two accesses to the database row.  Time is counted in ticks of
\* SegundosPorTique seconds.  The work a thread does between two progress
\* updates is not repeated here.

MaxPedidos == 2

MaxWorkers == 2

MaxEtapas == 2

MaxAgora == 5

SegundosPorTique == 100

EXPIRA == 300

Operacoes == {"clusterizar", "otimizar"}

Progresso(operacao, status, inicio) ==
    [operacao |-> operacao, status |-> status, inicio |-> inicio]

Resposta(rota, codigo, status) ==
    [rota |-> rota, codigo |-> codigo, status |-> status]

WorkerLivre ==
    [estado |-> "livre", operacao |-> "", inicio |-> 0, etapa |-> 0,
     excecao |-> "nenhuma"]

\* if rot.progresso_json: prog = json.loads(...); prog.get('status') == 'running'
EmAndamento(progresso_json) ==
    IF progresso_json = Null THEN FALSE
    ELSE progresso_json.status = "running"

WorkersRodando == {w \in DOMAIN pg_workers : pg_workers[w].estado = "rodando"}

WorkersLivres == {w \in DOMAIN pg_workers : pg_workers[w].estado = "livre"}

PedidosAceitos == {r \in DOMAIN pg_pedidos : pg_pedidos[r] \in Operacoes}

PgInit ==
    /\ pg_progresso_json = Null
    /\ pg_agora = 1
    /\ pg_pedidos = [r \in 1..MaxPedidos |-> "ocioso"]
    /\ pg_workers = [w \in 1..MaxWorkers |-> WorkerLivre]
    /\ pg_resposta = Null
    /\ pgOthersIdle

\* The first half of clusterizar and of otimizar: the row is read, a running
\* operation answers 409, missing passengers or stops answer 400.
Verificar(r, operacao, tem_dados) ==
    /\ Cardinality(PedidosAceitos) < Cardinality(WorkersLivres)
    /\ IF EmAndamento(pg_progresso_json)
       THEN /\ pg_resposta' = Resposta(operacao, 409, "Operacao ja em andamento.")
            /\ UNCHANGED pg_pedidos
       ELSE IF ~tem_dados
            THEN /\ pg_resposta' = Resposta(operacao, 400, "Nenhum dado.")
                 /\ UNCHANGED pg_pedidos
            ELSE /\ pg_pedidos' = [pg_pedidos EXCEPT ![r] = operacao]
                 /\ UNCHANGED pg_resposta
    /\ UNCHANGED <<pg_progresso_json, pg_agora, pg_workers, pgOthers>>

PgClusterizar ==
    \E r \in 1..MaxPedidos : \E total_geo \in BOOLEAN :
        /\ pg_pedidos[r] = "ocioso"
        /\ Verificar(r, "clusterizar", total_geo)

PgOtimizar ==
    \E r \in 1..MaxPedidos : \E paradas \in BOOLEAN :
        /\ pg_pedidos[r] = "ocioso"
        /\ Verificar(r, "otimizar", paradas)

\* The second half of both routes: the running record is committed and the
\* thread is started.
PgLancarThread ==
    \E r \in PedidosAceitos :
        LET w == CHOOSE x \in WorkersLivres : \A y \in WorkersLivres : x <= y
        IN  /\ pg_progresso_json' =
                   Progresso(pg_pedidos[r], "running", pg_agora)
            /\ pg_workers' = [pg_workers EXCEPT ![w] =
                   [estado |-> "rodando", operacao |-> pg_pedidos[r],
                    inicio |-> pg_agora, etapa |-> 0, excecao |-> "nenhuma"]]
            /\ pg_pedidos' = [pg_pedidos EXCEPT ![r] = "ocioso"]
            /\ pg_resposta' = Resposta(pg_pedidos[r], 200, "iniciada")
            /\ UNCHANGED <<pg_agora, pgOthers>>

\* _atualizar_progresso, called by a thread at each of its stages
PgAtualizarProgresso ==
    \E w \in WorkersRodando :
        /\ pg_workers[w].etapa < MaxEtapas
        /\ pg_progresso_json' =
               Progresso(pg_workers[w].operacao, "running", pg_workers[w].inicio)
        /\ pg_workers' = [pg_workers EXCEPT ![w].etapa = @ + 1]
        /\ UNCHANGED <<pg_agora, pg_pedidos, pg_resposta, pgOthers>>

\* The last stage of a thread: the completed record is committed.
PgFinalizar ==
    \E w \in WorkersRodando :
        /\ pg_workers[w].etapa = MaxEtapas
        /\ pg_progresso_json' =
               Progresso(pg_workers[w].operacao, "completed", pg_workers[w].inicio)
        /\ pg_workers' = [pg_workers EXCEPT ![w].estado = "terminado"]
        /\ UNCHANGED <<pg_agora, pg_pedidos, pg_resposta, pgOthers>>

\* except Exception as e: the handler reads the row again and commits the
\* error record in the thread's own session, without a rollback.  After an
\* exception of Python code the session is usable and the record is written.
\* After a failed flush or commit every further use of the session raises
\* until it is rolled back, the inner "except Exception: pass" swallows that,
\* and the record stays as it was.
PgExcecao ==
    \E w \in WorkersRodando : \E sessao_utilizavel \in BOOLEAN :
        /\ IF sessao_utilizavel
           THEN pg_progresso_json' =
                    Progresso(pg_workers[w].operacao, "error", pg_workers[w].inicio)
           ELSE UNCHANGED pg_progresso_json
        /\ pg_workers' = [pg_workers EXCEPT
               ![w].estado = "terminado",
               ![w].excecao = IF sessao_utilizavel THEN "gravada" ELSE "engolida"]
        /\ UNCHANGED <<pg_agora, pg_pedidos, pg_resposta, pgOthers>>

\* progresso: the poll, with the expiry of a running record
PgProgresso ==
    /\ IF pg_progresso_json # Null
       THEN LET elapsed ==
                    (pg_agora - pg_progresso_json.inicio) * SegundosPorTique
            IN  IF pg_progresso_json.status = "running" /\ elapsed > EXPIRA
                THEN /\ pg_resposta' = Resposta("progresso", 200, "error")
                     /\ pg_progresso_json' = Null
                ELSE /\ pg_resposta' =
                            Resposta("progresso", 200, pg_progresso_json.status)
                     /\ UNCHANGED pg_progresso_json
       ELSE /\ pg_resposta' = Resposta("progresso", 200, "idle")
            /\ UNCHANGED pg_progresso_json
    /\ UNCHANGED <<pg_agora, pg_pedidos, pg_workers, pgOthers>>

PgLimparProgresso ==
    /\ pg_progresso_json' = Null
    /\ pg_resposta' = Resposta("limpar", 200, "ok")
    /\ UNCHANGED <<pg_agora, pg_pedidos, pg_workers, pgOthers>>

PgTique ==
    /\ pg_agora < MaxAgora
    /\ pg_agora' = pg_agora + 1
    /\ UNCHANGED <<pg_progresso_json, pg_pedidos, pg_workers, pg_resposta,
                   pgOthers>>

PgThread == PgAtualizarProgresso \/ PgFinalizar \/ PgExcecao

PgNext ==
    \/ PgClusterizar
    \/ PgOtimizar
    \/ PgLancarThread
    \/ PgAtualizarProgresso
    \/ PgFinalizar
    \/ PgExcecao
    \/ PgProgresso
    \/ PgLimparProgresso
    \/ PgTique

SpecProgresso == PgInit /\ [][PgNext]_vars

\* A started thread keeps running until it returns, and a request that passed
\* its checks goes on to start its thread.  Polls, limpar_progresso and new
\* requests are up to the users and are not forced.
SpecProgressoJusto ==
    PgInit /\ [][PgNext]_vars /\ WF_vars(PgThread) /\ WF_vars(PgLancarThread)

\* C24: for one roteirizacao at most one background thread (clusterizar or
\* otimizar) runs at any time, whatever the interleaving of requests, progress
\* polls with their expiry and limpar_progresso calls: a request that arrives
\* while a thread is running starts no second one.
C24_UmWorkerPorVez == Cardinality(WorkersRodando) <= 1

StatusFinal ==
    IF pg_progresso_json = Null THEN FALSE
    ELSE pg_progresso_json.status \in {"completed", "error"}

\* C25: every thread that was started returns and leaves the progress record
\* in a final status, completed or error, also when it returns through an
\* exception.
C25_StatusFinal ==
    \A w \in 1..MaxWorkers :
        (pg_workers[w].estado = "rodando")
            ~> (pg_workers[w].estado = "terminado" /\ StatusFinal)

====
